---- MODULE Spec2Model ----
(***************************************************************************)
(* Recurring-event expansion (components/CalendarView.tsx) and the         *)
(* notification scheduler of the service worker (sw.js) of the Agenda      *)
(* application.                                                            *)
(*                                                                         *)
(* Time.  A JavaScript Date is modelled as the record [day, ms]: the       *)
(* number of local days since 1970-01-01 and the milliseconds since local  *)
(* midnight (a millisecond count since the epoch does not fit a 32-bit    *)
(* integer).  The local time zone has a fixed offset (no daylight          *)
(* saving change), so every local day has 86400000 ms.  An Invalid Date    *)
(* (time value NaN) is the record InvalidDate.                             *)
(***************************************************************************)
EXTENDS Integers, Sequences, FiniteSets, TLC

VARIABLES
    \* ---- expandRecurringEvents (CalendarView.tsx) ----
    baseEvents,      \* argument: the list of event definitions
    viewStart,       \* argument: start of the window (a Date)
    viewEnd,         \* argument: end of the window (a Date)
    pcE,             \* position in the function: "call", "forEach", "while", "done"
    idx,             \* index of the event the forEach is at
    cursorDate,      \* the cursor of the while loop (a Date)
    allOccurrences,  \* the result list being built
    calls,           \* how many calls have been started
    firstResult,     \* history: what the first call returned
    inputEvents,     \* history: the event list as it was handed to the first call
    \* ---- service worker (sw.js) ----
    now,                      \* the clock: what new Date() returns
    scheduledEvents,          \* global: the last synchronised event list
    notificationCheckTimeout, \* global: handle of the polling timeout, 0 for null
    timers,                   \* pending setTimeout(checkEventsForNotifications) timers
    timerSeq,                 \* number of setTimeout calls so far (the last handle)
    received,                 \* history: number of messages the listener has handled
    lastMessage,              \* history: the data of the last message handled
    passCount,                \* history: number of evaluation passes run
    lastPass,                 \* history: instant, list read and showNotification calls of the last pass
    lastFired,                \* history: handle of the timeout whose callback ran last, 0 for none
    delivered,                \* history: per alert instance, the passes that delivered it
    advances,                 \* number of clock advances
    \* ---- notifications and the notificationclick listener (sw.js) ----
    displayed,       \* the notifications on display (at most one per tag)
    snoozeTimers,    \* pending setTimeout callbacks set by the snooze action, each named by its click
    lastSnooze,      \* history: what the last snooze callback showed, when, and the stored list then
    lastClick,       \* history: the last notificationclick event and what it set off
    clicks,          \* number of notificationclick events handled
    clientInbox,     \* messages posted to the application window, not yet handled
    \* ---- application (App.tsx) ----
    clientOpen,      \* an application window is open
    events,          \* state: the event list
    calendars,       \* state: the calendar list
    undoStack,       \* state: saved {calendars, events} snapshots for undo
    redoStack,       \* state: saved snapshots for redo
    syncPending,     \* the effect that posts SYNC_EVENTS is due to run
    notificationPermission,  \* state: the notification permission the window knows
    controller       \* navigator.serviceWorker.controller is set: the worker controls the page

expVars == <<baseEvents, viewStart, viewEnd, pcE, idx, cursorDate,
             allOccurrences, calls, firstResult, inputEvents>>

swVars == <<now, scheduledEvents, notificationCheckTimeout, timers, timerSeq,
            received, lastMessage, passCount, lastPass, lastFired, delivered, advances>>

clickVars == <<displayed, snoozeTimers, lastSnooze, lastClick, clicks, clientInbox>>

appVars == <<clientOpen, events, calendars, undoStack, redoStack, syncPending,
             notificationPermission, controller>>

vars == <<expVars, swVars, clickVars, appVars>>

----------------------------------------------------------------------------
(* Bounds *)

MaxLen == 2          \* longest event list handed to the expander
MaxCalls == 2        \* calls of the expander on the same input
MaxPasses == 3       \* evaluation passes of the service worker
MaxAdvance == 2      \* advances of the clock
MaxMessages == 2     \* messages handled by the worker's listener
MaxClicks == 3       \* notificationclick events handled by the worker
MaxHistory == 1      \* snapshots on the undo stack

----------------------------------------------------------------------------
(* Calendar arithmetic of the built-in Date                                *)

MsPerDay == 86400000

InvalidDate == [day |-> 0, ms |-> -1]

IsNaN(t) == t.ms < 0

\* Day number of the civil date y-m-d (m in 1..12), days since 1970-01-01.
DaysFromCivil(y, m, d) ==
    LET yy  == IF m <= 2 THEN y - 1 ELSE y
        era == yy \div 400
        yoe == yy - era * 400
        mp  == IF m > 2 THEN m - 3 ELSE m + 9
        doy == (153 * mp + 2) \div 5 + d - 1
        doe == yoe * 365 + yoe \div 4 - yoe \div 100 + doy
    IN  era * 146097 + doe - 719468

\* The civil date [y, m, d] of a day number.
CivilFromDays(n) ==
    LET z   == n + 719468
        era == z \div 146097
        doe == z - era * 146097
        yoe == (doe - doe \div 1460 + doe \div 36524 - doe \div 146096) \div 365
        doy == doe - (365 * yoe + yoe \div 4 - yoe \div 100)
        mp  == (5 * doy + 2) \div 153
        d   == doy - (153 * mp + 2) \div 5 + 1
        m   == IF mp < 10 THEN mp + 3 ELSE mp - 9
        y   == yoe + era * 400
    IN  [y |-> IF m <= 2 THEN y + 1 ELSE y, m |-> m, d |-> d]

\* MakeDay of the language: year, month index (0-based, any integer) and day
\* of month (any integer) to a day number; out-of-range months carry into the
\* year and out-of-range days roll over into the neighbouring months.
MakeDay(y, month0, d) ==
    DaysFromCivil(y + month0 \div 12, (month0 % 12) + 1, 1) + d - 1

\* A day number and a millisecond count of any size, carried into [day, ms].
MakeDate(day, ms) == [day |-> day + ms \div MsPerDay, ms |-> ms % MsPerDay]

getFullYear(t) == CivilFromDays(t.day).y
getMonth(t) == CivilFromDays(t.day).m - 1
getDate(t) == CivilFromDays(t.day).d

setDate(t, d) == [day |-> MakeDay(getFullYear(t), getMonth(t), d), ms |-> t.ms]
\* Variant: a day of month the target month lacks is clamped to its last day.
setMonth_Clamped(t, month0) ==
    LET rolled == MakeDay(getFullYear(t), month0, getDate(t))
        last == MakeDay(getFullYear(t), month0 + 1, 0)
    IN  [day |-> IF rolled > last THEN last ELSE rolled, ms |-> t.ms]

setMonth(t, month0) == [day |-> MakeDay(getFullYear(t), month0, getDate(t)), ms |-> t.ms]

\* Variant: February 29 carried to a year without one becomes February 28.
setFullYear_Clamped(t, y) ==
    LET rolled == MakeDay(y, getMonth(t), getDate(t))
        last == MakeDay(y, getMonth(t) + 1, 0)
    IN  [day |-> IF rolled > last THEN last ELSE rolled, ms |-> t.ms]

setFullYear(t, y) == [day |-> MakeDay(y, getMonth(t), getDate(t)), ms |-> t.ms]

\* The Date of a local day and a time within it.
At(y, m, d, ms) == [day |-> DaysFromCivil(y, m, d), ms |-> ms]

\* Comparison of two Dates by their time value; false when either is NaN.
DateLE(a, b) ==
    /\ ~IsNaN(a)
    /\ ~IsNaN(b)
    /\ \/ a.day < b.day
       \/ a.day = b.day /\ a.ms <= b.ms

DateGE(a, b) == DateLE(b, a)

DateLT(a, b) == DateLE(a, b) /\ a # b

\* A date string "YYYY-MM-DD" is the record [y, m, d] of its three fields.
WellFormedDate(s) ==
    /\ s.m \in 1..12
    /\ s.d \in 1..31

\* new Date(date + 'T00:00:00'): local midnight of the date, or Invalid Date.
\* Variant: out-of-range fields roll over instead of giving an Invalid Date.
ParseLocalMidnight_Lenient(s) == [day |-> MakeDay(s.y, s.m - 1, s.d), ms |-> 0]

ParseLocalMidnight(s) ==
    IF WellFormedDate(s)
    THEN [day |-> MakeDay(s.y, s.m - 1, s.d), ms |-> 0]
    ELSE InvalidDate

\* toYYYYMMDD: the local year, month (1-based) and day of month of a Date.
toYYYYMMDD(t) == [y |-> getFullYear(t), m |-> getMonth(t) + 1, d |-> getDate(t)]

----------------------------------------------------------------------------
(* Event records                                                           *)

NoRepeat == [frequency |-> "none", interval |-> 0]

HasRepeat(event) == event.repeat # NoRepeat

Daily(k) == [frequency |-> "daily", interval |-> k]
Weekly(k) == [frequency |-> "weekly", interval |-> k]
Monthly(k) == [frequency |-> "monthly", interval |-> k]
Yearly(k) == [frequency |-> "yearly", interval |-> k]

Ymd(y, m, d) == [y |-> y, m |-> m, d |-> d]

Hm(h, mi) == [h |-> h, mi |-> mi]

AppEvent(id, date, startTime, alerts, repeat) ==
    [id |-> <<id>>, date |-> date, startTime |-> startTime, alerts |-> alerts,
     isCompleted |-> FALSE, isAllDay |-> FALSE, repeat |-> repeat]

----------------------------------------------------------------------------
(* expandRecurringEvents                                                   *)

\* The id of an occurrence: `${event.id}_${toYYYYMMDD(cursorDate)}`.
OccurrenceId(event, cursor) ==
    LET s == toYYYYMMDD(cursor) IN event.id \o <<s.y, s.m, s.d>>

\* Variant: the clone starts out as not completed.
Occurrence_NotCompleted(event, cursor) ==
    [event EXCEPT !.date = toYYYYMMDD(cursor), !.id = OccurrenceId(event, cursor),
                  !.isCompleted = FALSE]

\* { ...event, date: toYYYYMMDD(cursorDate), id: ... }
Occurrence(event, cursor) ==
    [event EXCEPT !.date = toYYYYMMDD(cursor), !.id = OccurrenceId(event, cursor)]

\* Variant: the lower bound of the window taken as exclusive.
InView_Exclusive(t, vs, ve) == DateLT(vs, t) /\ DateLE(t, ve)

\* eventDate >= viewStart && eventDate <= viewEnd
InView(t, vs, ve) == DateGE(t, vs) /\ DateLE(t, ve)

\* Variant: every cursor position is pushed, also those before the window.
CursorInView_NoGuard(cursor, vs) == TRUE

\* cursorDate >= viewStart, the guard of the push inside the loop
CursorInView(cursor, vs) == DateGE(cursor, vs)

\* Variant: the loop stops one step early, at cursorDate < viewEnd.
LoopCondition_Strict(cursor, ve) == DateLT(cursor, ve)

\* cursorDate <= viewEnd, the condition of the while loop
LoopCondition(cursor, ve) == DateLE(cursor, ve)

\* Variant: the daily case advances by whole weeks.
AdvanceCursor_DailyAsWeekly(cursor, repeatRule) ==
    CASE repeatRule.frequency = "daily" ->
            setDate(cursor, getDate(cursor) + repeatRule.interval * 7)
      [] repeatRule.frequency = "weekly" ->
            setDate(cursor, getDate(cursor) + repeatRule.interval * 7)
      [] repeatRule.frequency = "monthly" ->
            setMonth(cursor, getMonth(cursor) + repeatRule.interval)
      [] repeatRule.frequency = "yearly" ->
            setFullYear(cursor, getFullYear(cursor) + repeatRule.interval)
      [] OTHER -> cursor

\* Variant: the monthly case sets the month it already has.
AdvanceCursor_MonthStuck(cursor, repeatRule) ==
    CASE repeatRule.frequency = "daily" ->
            setDate(cursor, getDate(cursor) + repeatRule.interval)
      [] repeatRule.frequency = "weekly" ->
            setDate(cursor, getDate(cursor) + repeatRule.interval * 7)
      [] repeatRule.frequency = "monthly" ->
            setMonth(cursor, getMonth(cursor))
      [] repeatRule.frequency = "yearly" ->
            setFullYear(cursor, getFullYear(cursor) + repeatRule.interval)
      [] OTHER -> cursor

\* The switch on repeatRule.frequency that advances the cursor.
AdvanceCursor(cursor, repeatRule) ==
    CASE repeatRule.frequency = "daily" ->
            setDate(cursor, getDate(cursor) + repeatRule.interval)
      [] repeatRule.frequency = "weekly" ->
            setDate(cursor, getDate(cursor) + repeatRule.interval * 7)
      [] repeatRule.frequency = "monthly" ->
            setMonth(cursor, getMonth(cursor) + repeatRule.interval)
      [] repeatRule.frequency = "yearly" ->
            setFullYear(cursor, getFullYear(cursor) + repeatRule.interval)
      [] OTHER -> cursor

\* Variant: the result list outlives the call.
FreshResult_Kept(old) == old

\* const allOccurrences = [] at the start of a call.
FreshResult(old) == <<>>

\* Entry of a call: the result list is a fresh local, the forEach starts.
ExpandCall ==
    /\ pcE = "call"
    /\ calls < MaxCalls
    /\ allOccurrences' = FreshResult(allOccurrences)
    /\ idx' = 1
    /\ calls' = calls + 1
    /\ pcE' = "forEach"
    /\ UNCHANGED <<swVars, clickVars, appVars>>
    /\ UNCHANGED <<baseEvents, viewStart, viewEnd, cursorDate, firstResult, inputEvents>>

\* forEach body, !event.repeat: push the event itself when its date is in view.
ExpandSingle ==
    /\ pcE = "forEach"
    /\ idx <= Len(baseEvents)
    /\ ~HasRepeat(baseEvents[idx])
    /\ LET event == baseEvents[idx]
           eventDate == ParseLocalMidnight(event.date)
       IN  allOccurrences' = IF InView(eventDate, viewStart, viewEnd)
                             THEN Append(allOccurrences, event)
                             ELSE allOccurrences
    /\ idx' = idx + 1
    /\ UNCHANGED <<swVars, clickVars, appVars>>
    /\ UNCHANGED <<baseEvents, viewStart, viewEnd, pcE, cursorDate, calls,
                   firstResult, inputEvents>>

\* forEach body, event.repeat: the cursor starts at the anchor date.
ExpandRepeatStart ==
    /\ pcE = "forEach"
    /\ idx <= Len(baseEvents)
    /\ HasRepeat(baseEvents[idx])
    /\ cursorDate' = ParseLocalMidnight(baseEvents[idx].date)
    /\ pcE' = "while"
    /\ UNCHANGED <<swVars, clickVars, appVars>>
    /\ UNCHANGED <<baseEvents, viewStart, viewEnd, idx, allOccurrences, calls,
                   firstResult, inputEvents>>

\* One iteration of the while loop: push when in view, then advance.
ExpandLoopStep ==
    /\ pcE = "while"
    /\ LoopCondition(cursorDate, viewEnd)
    /\ allOccurrences' = IF CursorInView(cursorDate, viewStart)
                         THEN Append(allOccurrences, Occurrence(baseEvents[idx], cursorDate))
                         ELSE allOccurrences
    /\ cursorDate' = AdvanceCursor(cursorDate, baseEvents[idx].repeat)
    /\ UNCHANGED <<swVars, clickVars, appVars>>
    /\ UNCHANGED <<baseEvents, viewStart, viewEnd, pcE, idx, calls,
                   firstResult, inputEvents>>

\* The loop condition fails: on to the next event.
ExpandLoopExit ==
    /\ pcE = "while"
    /\ ~LoopCondition(cursorDate, viewEnd)
    /\ idx' = idx + 1
    /\ pcE' = "forEach"
    /\ UNCHANGED <<swVars, clickVars, appVars>>
    /\ UNCHANGED <<baseEvents, viewStart, viewEnd, cursorDate, allOccurrences, calls,
                   firstResult, inputEvents>>

\* return allOccurrences
ExpandReturn ==
    /\ pcE = "forEach"
    /\ idx > Len(baseEvents)
    /\ pcE' = "done"
    /\ firstResult' = IF calls = 1 THEN allOccurrences ELSE firstResult
    /\ UNCHANGED <<swVars, clickVars, appVars>>
    /\ UNCHANGED <<baseEvents, viewStart, viewEnd, idx, cursorDate, allOccurrences,
                   calls, inputEvents>>

\* The caller (the displayedEvents memo) calls again with the same arguments.
ExpandAgain ==
    /\ pcE = "done"
    /\ calls < MaxCalls
    /\ pcE' = "call"
    /\ UNCHANGED <<swVars, clickVars, appVars>>
    /\ UNCHANGED <<baseEvents, viewStart, viewEnd, idx, cursorDate, allOccurrences,
                   calls, firstResult, inputEvents>>

----------------------------------------------------------------------------
(* Service worker: checkEventsForNotifications and the message listener    *)

Alert(id, value, unit) == [id |-> id, value |-> value, unit |-> unit]

\* A start time string "HH:mm" is the record [h, mi] of its two fields.
WellFormedTime(s) ==
    /\ s.h \in 0..23
    /\ s.mi \in 0..59

\* Variant: a recurring event is measured from the occurrence that follows
\* its anchor.
ParseEventTime_NextOccurrence(event) ==
    IF WellFormedDate(event.date) /\ WellFormedTime(event.startTime)
    THEN LET anchor == [day |-> MakeDay(event.date.y, event.date.m - 1, event.date.d),
                        ms  |-> (event.startTime.h * 60 + event.startTime.mi) * 60000]
         IN  IF "repeat" \in DOMAIN event /\ event.repeat.interval > 0
             THEN AdvanceCursor(anchor, event.repeat)
             ELSE anchor
    ELSE InvalidDate

\* new Date(`${event.date}T${event.startTime}`): the local start instant.
ParseEventTime(event) ==
    IF WellFormedDate(event.date) /\ WellFormedTime(event.startTime)
    THEN [day |-> MakeDay(event.date.y, event.date.m - 1, event.date.d),
          ms  |-> (event.startTime.h * 60 + event.startTime.mi) * 60000]
    ELSE InvalidDate

\* setMinutes(getMinutes() - value) and setHours(getHours() - value): the
\* time within the day moves by a fixed duration and carries into the day.
AddMinutes(t, n) == MakeDate(t.day, t.ms + n * 60000)

AddHours(t, n) == MakeDate(t.day, t.ms + n * 3600000)

\* Variant: an alert in weeks moves the day of month back by its bare value.
NotificationTime_WeeksAsDays(eventTime, alert) ==
    CASE alert.unit = "minutes" -> AddMinutes(eventTime, 0 - alert.value)
      [] alert.unit = "hours"   -> AddHours(eventTime, 0 - alert.value)
      [] alert.unit = "days"    -> setDate(eventTime, getDate(eventTime) - alert.value)
      [] alert.unit = "weeks"   -> setDate(eventTime, getDate(eventTime) - alert.value)
      [] alert.unit = "months"  -> setMonth(eventTime, getMonth(eventTime) - alert.value)
      [] alert.unit = "years"   -> setFullYear(eventTime, getFullYear(eventTime) - alert.value)
      [] OTHER -> eventTime

\* The switch on alert.unit: the instant at which the alert is to be shown.
NotificationTime(eventTime, alert) ==
    CASE alert.unit = "minutes" -> AddMinutes(eventTime, 0 - alert.value)
      [] alert.unit = "hours"   -> AddHours(eventTime, 0 - alert.value)
      [] alert.unit = "days"    -> setDate(eventTime, getDate(eventTime) - alert.value)
      [] alert.unit = "weeks"   -> setDate(eventTime, getDate(eventTime) - alert.value * 7)
      [] alert.unit = "months"  -> setMonth(eventTime, getMonth(eventTime) - alert.value)
      [] alert.unit = "years"   -> setFullYear(eventTime, getFullYear(eventTime) - alert.value)
      [] OTHER -> eventTime

\* a.getTime() - b.getTime() in milliseconds.  Differences of more than one
\* day are reported as two days (with their sign): the exact value does not
\* fit a 32-bit integer and is only ever compared with 0 and 60000.
TimeDifference(a, b) ==
    LET dd == a.day - b.day
    IN  IF dd > 1 THEN 2 * MsPerDay
        ELSE IF dd < -1 THEN 0 - 2 * MsPerDay
        ELSE dd * MsPerDay + (a.ms - b.ms)

\* Variant: a due window of two minutes.
IsDue_TwoMinutes(timeDifference) == timeDifference >= 0 /\ timeDifference < 120000

\* Variant: the upper bound of the due window taken as inclusive.
IsDue_Inclusive(timeDifference) == timeDifference >= 0 /\ timeDifference <= 60000

\* timeDifference >= 0 && timeDifference < 60000
IsDue(timeDifference) == timeDifference >= 0 /\ timeDifference < 60000

\* Variant: the tag names the event only.
NotificationId_EventOnly(event, alert) == event.id

\* `${event.id}-${alert.id}`
NotificationId(event, alert) == event.id \o <<alert.id>>

\* unitLabels[alert.unit]
UnitLabel(unit) ==
    CASE unit = "minutes" -> "minuto(s)"
      [] unit = "hours"   -> "hora(s)"
      [] unit = "days"    -> "dia(s)"
      [] unit = "weeks"   -> "semana(s)"
      [] unit = "months"  -> "mês(es)"
      [] unit = "years"   -> "ano(s)"
      [] OTHER -> "undefined"

\* Variant: the lead time is always written out.
Body_AlwaysLead(event, alert) ==
    [form |-> "inValueUnit", value |-> alert.value, unitLabel |-> UnitLabel(alert.unit),
     startTime |-> event.startTime]

\* The body text, by the template used and the values filled in:
\* `<title> está começando agora (<startTime>).` when alert.value === 0,
\* `<title> em <value> <unit label> (às <startTime>).` otherwise.
Body(event, alert) ==
    IF alert.value = 0
    THEN [form |-> "startingNow", startTime |-> event.startTime]
    ELSE [form |-> "inValueUnit", value |-> alert.value,
          unitLabel |-> UnitLabel(alert.unit), startTime |-> event.startTime]

\* The arguments of one showNotification call of the evaluation pass.
Notification(event, alert) ==
    [tag  |-> NotificationId(event, alert),
     body |-> Body(event, alert),
     data |-> [eventId |-> event.id, snoozeCount |-> 0]]

\* Variant: the completed flag is not looked at.
Skipped_IgnoresCompleted(event) == Len(event.alerts) = 0

\* The form of a list entry as the worker receives it.  An entry without a
\* shape field is an object whose fields have the types of AppEvent.  Shape
\* "null": the entry is null or undefined.  Shape "alertsNotArray": an object
\* whose alerts field is a number (truthy, without length or forEach).  An
\* object whose alerts field is missing is a record without that field.
Shape(event) == IF "shape" \in DOMAIN event THEN event.shape ELSE "ok"

\* Reading event.alerts of this entry throws a TypeError.
IsNullEntry(event) == Shape(event) = "null"

\* !event.alerts || event.alerts.length === 0 || event.isCompleted
Skipped(event) ==
    \/ "alerts" \notin DOMAIN event
    \/ (Shape(event) = "ok" /\ Len(event.alerts) = 0)
    \/ event.isCompleted

RECURSIVE AlertsShown(_, _, _, _)
\* event.alerts.forEach from alert i on: the notifications shown, in order.
AlertsShown(event, eventTime, nowT, i) ==
    IF i > Len(event.alerts) THEN <<>>
    ELSE LET alert == event.alerts[i]
             notificationTime == NotificationTime(eventTime, alert)
             timeDifference == TimeDifference(nowT, notificationTime)
         IN  (IF IsDue(timeDifference) THEN << Notification(event, alert) >> ELSE <<>>)
             \o AlertsShown(event, eventTime, nowT, i + 1)

\* The body of scheduledEvents.forEach for one entry that is not null: the
\* try block ends at the first exception (event.alerts.forEach is not a
\* function), which the catch logs.
EventShown(event, nowT) ==
    IF Skipped(event) THEN <<>>
    ELSE LET eventTime == ParseEventTime(event)
         IN  IF IsNaN(eventTime) THEN <<>>
             ELSE IF Shape(event) = "alertsNotArray" THEN <<>>
             ELSE AlertsShown(event, eventTime, nowT, 1)

\* The forEach callback throws for this entry: the read of event.alerts at
\* line 40 is outside the try block.
Escapes(event) == IsNullEntry(event)

\* The pass over this list ends with an uncaught exception.
PassThrows(list) == \E i \in DOMAIN list : Escapes(list[i])

RECURSIVE PassShown(_, _, _)
\* scheduledEvents.forEach from entry i on: every showNotification call, up
\* to the entry at which the callback throws.
PassShown(list, nowT, i) ==
    IF i > Len(list) THEN <<>>
    ELSE IF Escapes(list[i]) THEN <<>>
    ELSE EventShown(list[i], nowT) \o PassShown(list, nowT, i + 1)

\* Variant: the previous timeout is left pending.
ClearTimeout_Omitted(handle, ts) == ts

\* if (notificationCheckTimeout) clearTimeout(notificationCheckTimeout)
ClearTimeout(handle, ts) ==
    IF handle # 0 THEN { t \in ts : t.id # handle } ELSE ts

\* Variant: the stored list is kept when a list arrives.
ReceivedList_Stale(data, old) == old

\* scheduledEvents = event.data.events || []
ReceivedList(data, old) == IF data.hasEvents THEN data.events ELSE <<>>

\* History key of an alert instance: the event id and alert id together with
\* the date, start time and alert rule that fix its notification instant.
InstanceKey(event, alert) ==
    <<event.id, alert.id, event.date, event.startTime, alert.value, alert.unit>>

\* The alert instances behind the showNotification calls of a pass (ids are
\* distinct within a list, alert ids within an event).
ShownInstances(list, shown) ==
    LET tags == { shown[n].tag : n \in DOMAIN shown }
    IN  UNION { { InstanceKey(list[i], list[i].alerts[j]) :
                    j \in { k \in DOMAIN list[i].alerts :
                              NotificationId(list[i], list[i].alerts[k]) \in tags } } :
                i \in { n \in DOMAIN list : /\ Shape(list[n]) = "ok"
                                             /\ "alerts" \in DOMAIN list[n] } }

\* setTimeout(checkEventsForNotifications, 60000)
PollingDelay == 60000

RECURSIVE ShowAll(_, _, _)
\* showNotification for the calls shown[i..] in order: a notification takes
\* the place of the one on display under the same tag.
ShowAll(shown, i, onDisplay) ==
    IF i > Len(shown) THEN onDisplay
    ELSE ShowAll(shown, i + 1,
                 { m \in onDisplay : m.tag # shown[i].tag } \cup { shown[i] })

\* checkEventsForNotifications, run over the list `list` with the timers
\* `ts` pending: clear the previous timeout, show every due alert, set the
\* next timeout 60 seconds ahead.  When the forEach throws, the function is
\* left before the setTimeout of line 91.
CheckEventsForNotifications(list, ts) ==
    LET shown == PassShown(list, now, 1)
        keys  == ShownInstances(list, shown)
        threw == PassThrows(list)
    IN  /\ timers' = ClearTimeout(notificationCheckTimeout, ts)
                        \cup (IF threw THEN {}
                              ELSE { [id |-> timerSeq + 1,
                                      due |-> MakeDate(now.day, now.ms + PollingDelay)] })
        /\ notificationCheckTimeout' = IF threw THEN notificationCheckTimeout ELSE timerSeq + 1
        /\ timerSeq' = IF threw THEN timerSeq ELSE timerSeq + 1
        /\ passCount' = passCount + 1
        /\ lastPass' = [at |-> now, list |-> list, shown |-> shown, threw |-> threw]
        /\ displayed' = ShowAll(shown, 1, displayed)
        /\ delivered' = [k \in DOMAIN delivered \cup keys |->
                            (IF k \in DOMAIN delivered THEN delivered[k] ELSE 0)
                            + (IF k \in keys THEN 1 ELSE 0)]

\* Variant: the listener acts on a message of any type.
IsSyncEvents_AnyType(data) == TRUE

\* event.data && event.data.type === 'SYNC_EVENTS'
IsSyncEvents(data) == data.type = "SYNC_EVENTS"

\* 'message' listener, type SYNC_EVENTS: store the list, run a pass.
OnSyncEvents(data) ==
    /\ IsSyncEvents(data)
    /\ received < MaxMessages
    /\ passCount < MaxPasses
    /\ received' = received + 1
    /\ lastMessage' = data
    /\ scheduledEvents' = ReceivedList(data, scheduledEvents)
    /\ CheckEventsForNotifications(scheduledEvents', timers)
    /\ UNCHANGED <<now, lastFired, advances>>
    /\ UNCHANGED <<snoozeTimers, lastSnooze, lastClick, clicks, clientInbox>>
    /\ UNCHANGED expVars

\* 'message' listener, any other type: nothing happens.
OnOtherMessage(data) ==
    /\ ~IsSyncEvents(data)
    /\ received < MaxMessages
    /\ received' = received + 1
    /\ lastMessage' = data
    /\ UNCHANGED <<now, scheduledEvents, notificationCheckTimeout, timers, timerSeq,
                   passCount, lastPass, lastFired, delivered, advances>>
    /\ UNCHANGED <<expVars, clickVars, appVars>>

\* 'message' listener, a message sent by anyone but the application's sync
\* effect.
OnMessage(data) ==
    \/ OnSyncEvents(data) /\ UNCHANGED appVars
    \/ OnOtherMessage(data)

\* The polling timeout fires, at its due time or later, and runs a pass.
Tick ==
    /\ passCount < MaxPasses
    /\ \E t \in timers :
          /\ DateGE(now, t.due)
          /\ lastFired' = t.id
          /\ CheckEventsForNotifications(scheduledEvents, timers \ {t})
    /\ UNCHANGED <<now, scheduledEvents, received, lastMessage, advances>>
    /\ UNCHANGED <<snoozeTimers, lastSnooze, lastClick, clicks, clientInbox>>
    /\ UNCHANGED <<expVars, appVars>>

\* Time passes.
Advance(ms) ==
    /\ advances < MaxAdvance
    /\ now' = MakeDate(now.day, now.ms + ms)
    /\ advances' = advances + 1
    /\ UNCHANGED <<scheduledEvents, notificationCheckTimeout, timers, timerSeq,
                   received, lastMessage, passCount, lastPass, lastFired, delivered>>
    /\ UNCHANGED <<expVars, clickVars, appVars>>

----------------------------------------------------------------------------
(* Service worker: the notificationclick listener and the snooze timeout   *)

\* 5 * 60 * 1000
SnoozeDelay == 5 * 60 * 1000

\* (data.snoozeCount || 0) + 1
NextSnoozeCount(data) == data.snoozeCount + 1

\* Variant: no limit on the number of snoozes.
CanSnooze_Unlimited(snoozeCount) == TRUE

\* snoozeCount <= 2
CanSnooze(snoozeCount) == snoozeCount <= 2

\* notification.body.replace(/^\(Adiado\) /, ''): the text without the prefix.
StripAdiado(body) == IF "adiado" \in DOMAIN body THEN body.text ELSE body

\* `(Adiado) ${...}`: the prefix once, in front of the stripped text.
SnoozedBody(body) == [adiado |-> TRUE, text |-> StripAdiado(body)]

\* Variant: the snoozed notification keeps the tag of the one it stems from.
SnoozeTag_Same(tag, snoozeCount) == tag

\* `${notification.tag}-snooze-${snoozeCount}` (ToString gives the decimal
\* digits of the count)
SnoozeTag(tag, snoozeCount) == tag \o <<"snooze", ToString(snoozeCount)>>

\* The arguments of the showNotification call of the snooze callback.
SnoozedNotification(notification, snoozeCount) ==
    [tag  |-> SnoozeTag(notification.tag, snoozeCount),
     body |-> SnoozedBody(notification.body),
     data |-> [notification.data EXCEPT !.snoozeCount = snoozeCount]]

NoClick == [action |-> "none"]

NoSnooze == [at |-> InvalidDate]

ClickActions == {"snooze", "mark_as_read", ""}

\* 'notificationclick' listener: the user activated `action` ("" for the
\* body) on a notification on display.
NotificationClick(notification, action) ==
    LET data == notification.data
        snoozeCount == NextSnoozeCount(data)
    IN  /\ notification \in displayed
        /\ clicks < MaxClicks
        /\ IF action = "snooze" /\ CanSnooze(snoozeCount)
           THEN /\ snoozeTimers' = snoozeTimers \cup
                        { [click |-> clicks + 1,
                           due |-> MakeDate(now.day, now.ms + SnoozeDelay),
                           notification |-> notification,
                           snoozeCount |-> snoozeCount] }
           ELSE UNCHANGED snoozeTimers
        /\ IF action = "mark_as_read" /\ clientOpen
           THEN clientInbox' = Append(clientInbox,
                                      [type |-> "MARK_EVENT_AS_COMPLETED",
                                       eventId |-> data.eventId])
           ELSE UNCHANGED clientInbox
        /\ IF action \notin {"snooze", "mark_as_read"} /\ ~clientOpen
           THEN clientOpen' = TRUE /\ syncPending' = TRUE
           ELSE UNCHANGED <<clientOpen, syncPending>>
        /\ displayed' = displayed \ {notification}
        /\ lastClick' = [action |-> action, notification |-> notification]
        /\ clicks' = clicks + 1
        /\ UNCHANGED lastSnooze
        /\ UNCHANGED <<events, calendars, undoStack, redoStack,
                       notificationPermission, controller>>
        /\ UNCHANGED <<swVars, expVars>>

\* The callback of a snooze timeout runs, at its due time or later.
SnoozeTimeout ==
    \E t \in snoozeTimers :
        LET shown == SnoozedNotification(t.notification, t.snoozeCount)
        IN  /\ DateGE(now, t.due)
            /\ snoozeTimers' = snoozeTimers \ {t}
            /\ displayed' = ShowAll(<<shown>>, 1, displayed)
            /\ lastSnooze' = [at |-> now, timer |-> t, shown |-> shown,
                              list |-> scheduledEvents]
            /\ UNCHANGED <<lastClick, clicks, clientInbox>>
            /\ UNCHANGED <<swVars, expVars, appVars>>

----------------------------------------------------------------------------
(* Application: the message listener, updateEvent and the sync effect      *)

\* Variant: without a match the first event of the list is found.
FindEvent_FirstIfNone(list, eventId) ==
    LET hits == { i \in DOMAIN list : list[i].id = eventId }
    IN  IF hits = {} THEN (IF list = <<>> THEN 0 ELSE 1)
        ELSE CHOOSE i \in hits : \A j \in hits : i <= j

\* events.find(e => e.id === eventId): the index of the first match, 0 for
\* undefined.
FindEvent(list, eventId) ==
    LET hits == { i \in DOMAIN list : list[i].id = eventId }
    IN  IF hits = {} THEN 0 ELSE CHOOSE i \in hits : \A j \in hits : i <= j

\* prev.slice(-n): the last n elements.
LastN(seq, n) ==
    IF Len(seq) <= n THEN seq ELSE SubSeq(seq, Len(seq) - n + 1, Len(seq))

\* saveStateToHistory: push the current {calendars, events}, clear redo.
SaveStateToHistory ==
    /\ undoStack' = LastN(undoStack, 20) \o << [calendars |-> calendars, events |-> events] >>
    /\ redoStack' = <<>>

\* prev.map(event => event.id === updatedEvent.id ? updatedEvent : event)
ReplaceEvent(list, updatedEvent) ==
    [i \in DOMAIN list |-> IF list[i].id = updatedEvent.id THEN updatedEvent ELSE list[i]]

\* updateEvent: save the previous state, replace the event; the changed
\* list makes the sync effect due.
UpdateEvent(updatedEvent) ==
    /\ SaveStateToHistory
    /\ events' = ReplaceEvent(events, updatedEvent)
    /\ syncPending' = TRUE

\* Variant: the completed copy is not written back.
MarkedCompleted_Dropped(event) == event

\* { ...eventToUpdate, isCompleted: true }
MarkedCompleted(event) == [event EXCEPT !.isCompleted = TRUE]

\* handleMessage: the application window handles the oldest message the
\* worker posted to it.
HandleMessage ==
    /\ clientOpen
    /\ clientInbox # <<>>
    /\ LET data == Head(clientInbox)
           found == FindEvent(events, data.eventId)
       IN  IF data.type = "MARK_EVENT_AS_COMPLETED" /\ found # 0
           THEN UpdateEvent(MarkedCompleted(events[found]))
           ELSE UNCHANGED <<events, undoStack, redoStack, syncPending>>
    /\ clientInbox' = Tail(clientInbox)
    /\ UNCHANGED <<clientOpen, calendars, notificationPermission, controller>>
    /\ UNCHANGED <<displayed, snoozeTimers, lastSnooze, lastClick, clicks>>
    /\ UNCHANGED <<swVars, expVars>>

\* notificationPermission === 'granted' && navigator.serviceWorker.controller
CanPost(permission, controlled) == permission = "granted" /\ controlled

\* The effect on [events, notificationPermission], permission granted and
\* the worker controlling the page: the list is posted and the worker's
\* message listener handles it.
PostSyncEvents ==
    /\ clientOpen
    /\ syncPending
    /\ CanPost(notificationPermission, controller)
    /\ OnSyncEvents([type |-> "SYNC_EVENTS", hasEvents |-> TRUE, events |-> events])
    /\ syncPending' = FALSE
    /\ UNCHANGED <<clientOpen, events, calendars, undoStack, redoStack,
                   notificationPermission, controller>>

\* The same effect without the permission or without a controlling worker:
\* it runs and posts nothing.
SkipSyncEvents ==
    /\ clientOpen
    /\ syncPending
    /\ ~CanPost(notificationPermission, controller)
    /\ syncPending' = FALSE
    /\ UNCHANGED <<clientOpen, events, calendars, undoStack, redoStack,
                   notificationPermission, controller>>
    /\ UNCHANGED <<swVars, expVars, clickVars>>

\* Date.now() as the templates print it: the milliseconds since the epoch,
\* written here as the day count and the milliseconds within the day (the
\* number itself is beyond the integers at hand; the two determine it and
\* it determines them).
DateNow(t) == ToString(t.day) \o ":" \o ToString(t.ms)

\* `evt-${Date.now()}`
NewEventId(t) == <<"evt", DateNow(t)>>

\* `cal-${Date.now()}`
NewCalendarId(t) == "cal-" \o DateNow(t)

\* { ...eventData, id: `evt-${Date.now()}` } for an event of the event form,
\* which names its calendar.
NewEvent(eventData, calendarId, t) ==
    [f \in DOMAIN eventData \cup {"id", "calendarId"} |->
        CASE f = "id" -> NewEventId(t)
          [] f = "calendarId" -> calendarId
          [] OTHER -> eventData[f]]

\* prev.filter(event => event.id !== id)
WithoutEvent(list, id) ==
    LET Keep(event) == event.id # id IN SelectSeq(list, Keep)

\* Variant: the events of the calendar are kept.
WithoutEventsOf_Kept(list, id) == list

\* prev.filter(event => event.calendarId !== id)
WithoutEventsOf(list, id) ==
    LET Keep(event) == event.calendarId # id IN SelectSeq(list, Keep)

\* prev.filter(cal => cal.id !== id)
WithoutCalendar(list, id) ==
    LET Keep(cal) == cal.id # id IN SelectSeq(list, Keep)

\* What every operation of the open window leaves alone.
AppFrame ==
    /\ UNCHANGED <<clientOpen, notificationPermission, controller>>
    /\ UNCHANGED <<swVars, expVars, clickVars>>

\* addEvent
AddEvent(eventData, calendarId) ==
    /\ clientOpen
    /\ SaveStateToHistory
    /\ events' = Append(events, NewEvent(eventData, calendarId, now))
    /\ syncPending' = TRUE
    /\ UNCHANGED calendars
    /\ AppFrame

\* updateEvent, called by the event form with an edited copy of an event.
EditEvent(updatedEvent) ==
    /\ clientOpen
    /\ UpdateEvent(updatedEvent)
    /\ UNCHANGED calendars
    /\ AppFrame

\* deleteEvent
DeleteEvent(id) ==
    /\ clientOpen
    /\ SaveStateToHistory
    /\ events' = WithoutEvent(events, id)
    /\ syncPending' = TRUE
    /\ UNCHANGED calendars
    /\ AppFrame

\* addCalendar: the event list is not set, the sync effect does not run.
AddCalendar(name) ==
    /\ clientOpen
    /\ SaveStateToHistory
    /\ calendars' = Append(calendars, [id |-> NewCalendarId(now), name |-> name])
    /\ UNCHANGED <<events, syncPending>>
    /\ AppFrame

\* deleteCalendar
DeleteCalendar(id) ==
    /\ clientOpen
    /\ SaveStateToHistory
    /\ calendars' = WithoutCalendar(calendars, id)
    /\ events' = WithoutEventsOf(events, id)
    /\ syncPending' = TRUE
    /\ AppFrame

\* The calendar of a category name in a calendar list, "" for undefined.
CalendarIdOf(list, name) ==
    LET hits == { i \in DOMAIN list : list[i].name = name }
    IN  IF hits = {} THEN "" ELSE list[CHOOSE i \in hits : \A j \in hits : j <= i].id

\* The new calendars numbered in the order of their creation.
NumberedCalendars(names, t) ==
    [n \in DOMAIN names |->
        [id |-> "cal-" \o DateNow(t) \o "-" \o ToString(n - 1),
         name |-> names[n]]]

RECURSIVE NewCategories(_, _, _)
\* The categories of the parsed events no calendar is named after, each
\* once, in order of first appearance.
NewCategories(parsed, i, known) ==
    IF i > Len(parsed) THEN <<>>
    ELSE IF parsed[i].category \in known
         THEN NewCategories(parsed, i + 1, known)
         ELSE <<parsed[i].category>>
              \o NewCategories(parsed, i + 1, known \cup {parsed[i].category})

\* _parseICSContent on the VEVENT blocks of a file that have a DTSTART, each
\* given by its UID, category, date and start time: the events with the id
\* of their calendar, and the calendars created.
ParseICSContent(parsed, existingCalendars, t) ==
    LET known == { existingCalendars[i].name : i \in DOMAIN existingCalendars }
        newCalendars == NumberedCalendars(NewCategories(parsed, 1, known), t)
        finalCalendars == existingCalendars \o newCalendars
    IN  [events |-> [i \in DOMAIN parsed |->
                        [id |-> parsed[i].uid, date |-> parsed[i].date,
                         startTime |-> parsed[i].startTime,
                         calendarId |-> CalendarIdOf(finalCalendars, parsed[i].category)]],
         newCalendars |-> newCalendars]

\* importICS
ImportICS(parsed) ==
    /\ clientOpen
    /\ SaveStateToHistory
    /\ LET result == ParseICSContent(parsed, calendars, now)
       IN  /\ calendars' = calendars \o result.newCalendars
           /\ events' = events \o result.events
    /\ syncPending' = TRUE
    /\ AppFrame

\* The four pieces of state that undo and redo read and set.
AppState ==
    [calendars |-> calendars, events |-> events,
     undoStack |-> undoStack, redoStack |-> redoStack]

\* handleUndo on a state: nothing with an empty undo stack; otherwise the
\* current {calendars, events} goes onto the redo stack and the top of the
\* undo stack is taken off and restored.
Undone(state) ==
    IF state.undoStack = <<>> THEN state
    ELSE LET lastState == state.undoStack[Len(state.undoStack)]
         IN  [calendars |-> lastState.calendars,
              events    |-> lastState.events,
              undoStack |-> SubSeq(state.undoStack, 1, Len(state.undoStack) - 1),
              redoStack |-> Append(state.redoStack,
                                   [calendars |-> state.calendars,
                                    events |-> state.events])]

\* Variant: redo restores the state without pushing the current one.
Redone_NoPush(state) ==
    IF state.redoStack = <<>> THEN state
    ELSE LET nextState == state.redoStack[Len(state.redoStack)]
         IN  [calendars |-> nextState.calendars,
              events    |-> nextState.events,
              undoStack |-> state.undoStack,
              redoStack |-> SubSeq(state.redoStack, 1, Len(state.redoStack) - 1)]

\* handleRedo on a state: nothing with an empty redo stack; otherwise the
\* current {calendars, events} goes onto the undo stack and the top of the
\* redo stack is taken off and restored.
Redone(state) ==
    IF state.redoStack = <<>> THEN state
    ELSE LET nextState == state.redoStack[Len(state.redoStack)]
         IN  [calendars |-> nextState.calendars,
              events    |-> nextState.events,
              undoStack |-> Append(state.undoStack,
                                   [calendars |-> state.calendars,
                                    events |-> state.events]),
              redoStack |-> SubSeq(state.redoStack, 1, Len(state.redoStack) - 1)]

\* The application's state becomes the given one.
SetAppState(state) ==
    /\ calendars' = state.calendars
    /\ events' = state.events
    /\ undoStack' = state.undoStack
    /\ redoStack' = state.redoStack

\* handleUndo: a restored event list makes the sync effect due.
HandleUndo ==
    /\ clientOpen
    /\ SetAppState(Undone(AppState))
    /\ syncPending' = (syncPending \/ undoStack # <<>>)
    /\ AppFrame

\* handleRedo
HandleRedo ==
    /\ clientOpen
    /\ SetAppState(Redone(AppState))
    /\ syncPending' = (syncPending \/ redoStack # <<>>)
    /\ AppFrame

\* requestNotificationPermission: the user answers the prompt; a changed
\* permission makes the sync effect run.
RequestNotificationPermission(permission) ==
    /\ clientOpen
    /\ notificationPermission = "default"
    /\ notificationPermission' = permission
    /\ syncPending' = (syncPending \/ permission # notificationPermission)
    /\ UNCHANGED <<clientOpen, events, calendars, undoStack, redoStack, controller>>
    /\ UNCHANGED <<swVars, expVars, clickVars>>

\* The worker's activate handler: self.clients.claim() makes it the
\* controller of the open window.
ClientsClaim ==
    /\ clientOpen
    /\ ~controller
    /\ controller' = TRUE
    /\ UNCHANGED <<clientOpen, events, calendars, undoStack, redoStack, syncPending,
                   notificationPermission>>
    /\ UNCHANGED <<swVars, expVars, clickVars>>

\* The user closes the application window.
CloseWindow ==
    /\ clientOpen
    /\ clientInbox = <<>>
    /\ clientOpen' = FALSE
    /\ syncPending' = FALSE
    /\ UNCHANGED <<events, calendars, undoStack, redoStack,
                   notificationPermission, controller>>
    /\ UNCHANGED <<swVars, expVars, clickVars>>

----------------------------------------------------------------------------
(* Inputs of the service worker                                            *)

Completed(event) == [event EXCEPT !.isCompleted = TRUE]

AllDay(event) == [event EXCEPT !.isAllDay = TRUE]

\* Events whose alerts fall due around 2024-02-29 23:58 local time.
evA == AppEvent("a", Ymd(2024, 3, 1), Hm(0, 13),
                <<Alert("a1", 15, "minutes"), Alert("a2", 1, "days")>>, NoRepeat)
evB == AppEvent("b", Ymd(2024, 3, 7), Hm(23, 59),
                <<Alert("b1", 1, "weeks"), Alert("b2", 7, "days")>>, NoRepeat)
evC == AppEvent("c", Ymd(2024, 3, 29), Hm(23, 58),
                <<Alert("c1", 1, "months"), Alert("c2", 1, "hours")>>, Weekly(1))
evD == AppEvent("d", Ymd(2028, 2, 29), Hm(23, 59),
                <<Alert("d1", 4, "years"), Alert("d2", 0, "minutes")>>, NoRepeat)
evE == AppEvent("e", Ymd(2024, 3, 1), Hm(0, 59),
                <<Alert("e1", 1, "hours"), Alert("e2", 60, "minutes")>>, NoRepeat)
evF == AppEvent("f", Ymd(2024, 2, 29), Hm(23, 58),
                <<Alert("f1", 0, "minutes")>>, NoRepeat)
evG == AppEvent("g", Ymd(2024, 2, 29), Hm(23, 58), <<>>, NoRepeat)
\* An all-day event as the event form saves it: start time 00:00, alerts kept.
evH == AllDay(AppEvent("h", Ymd(2024, 3, 1), Hm(0, 0),
                       <<Alert("h1", 2, "minutes")>>, NoRepeat))

\* An event with two alerts due at 2024-02-29 23:58.
evK == AppEvent("k", Ymd(2024, 3, 1), Hm(0, 58),
                <<Alert("k1", 1, "hours"), Alert("k2", 60, "minutes")>>, NoRepeat)

SyncLists ==
    { <<>>,
      <<evA>>,
      <<evA, evB>>,
      <<evC, evD>>,
      <<evE, evF>>,
      <<Completed(evA), evF>>,
      <<evG, evH>> }

Messages ==
    { [type |-> "SYNC_EVENTS", hasEvents |-> TRUE, events |-> l] : l \in SyncLists }
    \cup { [type |-> "SYNC_EVENTS", hasEvents |-> FALSE, events |-> <<>>],
           [type |-> "OTHER", hasEvents |-> FALSE, events |-> <<>>] }

\* The messages without an event list: one of a type the listener does not
\* know, and a SYNC_EVENTS message that lacks its events field.
FrameMessages == { data \in Messages : ~data.hasEvents }

NoMessage == [type |-> "", hasEvents |-> FALSE, events |-> <<>>]

\* The clock starts one millisecond before 2024-02-29 23:58:00.000.
StartOfClock == At(2024, 2, 29, (23 * 60 + 58) * 60000 - 1)

ClockSteps == {1, 59999, 60000}

\* The worker right after its script was evaluated, the clock showing t.
InitWorkerAt(t) ==
    /\ now = t
    /\ scheduledEvents = <<>>
    /\ notificationCheckTimeout = 0
    /\ timers = {}
    /\ timerSeq = 0
    /\ received = 0
    /\ lastMessage = NoMessage
    /\ passCount = 0
    /\ lastPass = [at |-> InvalidDate, list |-> <<>>, shown |-> <<>>, threw |-> FALSE]
    /\ lastFired = 0
    /\ delivered = << >>
    /\ advances = 0
    /\ displayed = {}
    /\ snoozeTimers = {}
    /\ lastSnooze = NoSnooze
    /\ lastClick = NoClick
    /\ clicks = 0
    /\ clientInbox = <<>>

\* No expansion is running.
InitNoExpansion ==
    /\ baseEvents = <<>>
    /\ viewStart = InvalidDate
    /\ viewEnd = InvalidDate
    /\ pcE = "done"
    /\ idx = 1
    /\ cursorDate = InvalidDate
    /\ allOccurrences = <<>>
    /\ calls = MaxCalls
    /\ firstResult = <<>>
    /\ inputEvents = <<>>

InitWorker == InitWorkerAt(StartOfClock)

DefaultCalendars == << [id |-> "cal-default", name |-> "Pessoal"] >>

\* No application window takes part.
InitNoApp ==
    /\ clientOpen = FALSE
    /\ events = <<>>
    /\ calendars = DefaultCalendars
    /\ undoStack = <<>>
    /\ redoStack = <<>>
    /\ syncPending = FALSE
    /\ notificationPermission = "default"
    /\ controller = FALSE

Init == InitWorker /\ InitNoExpansion /\ InitNoApp

Next ==
    \/ \E data \in Messages : OnSyncEvents(data) /\ UNCHANGED appVars
    \/ \E data \in Messages : OnOtherMessage(data)
    \/ Tick
    \/ \E ms \in ClockSteps : Advance(ms)

Spec == Init /\ [][Next]_vars

----------------------------------------------------------------------------
(* The worker polling undisturbed: one list, every timeout run on time     *)

Units == {"minutes", "hours", "days", "weeks", "months", "years"}

\* An event starting at 2024-02-29 23:58 with an alert of value 0 in unit u.
ZeroEvent(u) ==
    AppEvent("z", Ymd(2024, 2, 29), Hm(23, 58), <<Alert("z0", 0, u)>>, NoRepeat)

\* An event with one alert of a positive value in unit u whose notification
\* instant is 2024-02-29 23:58.
LeadEvent(u) ==
    CASE u = "minutes" ->
           AppEvent("l", Ymd(2024, 3, 1), Hm(0, 28), <<Alert("l1", 30, u)>>, NoRepeat)
      [] u = "hours" ->
           AppEvent("l", Ymd(2024, 3, 1), Hm(1, 58), <<Alert("l1", 2, u)>>, NoRepeat)
      [] u = "days" ->
           AppEvent("l", Ymd(2024, 3, 3), Hm(23, 58), <<Alert("l1", 3, u)>>, NoRepeat)
      [] u = "weeks" ->
           AppEvent("l", Ymd(2024, 3, 14), Hm(23, 58), <<Alert("l1", 2, u)>>, NoRepeat)
      [] u = "months" ->
           AppEvent("l", Ymd(2024, 4, 29), Hm(23, 58), <<Alert("l1", 2, u)>>, NoRepeat)
      [] u = "years" ->
           AppEvent("l", Ymd(2028, 2, 29), Hm(23, 58), <<Alert("l1", 4, u)>>, NoRepeat)

UnitLists == { <<ZeroEvent(u), LeadEvent(u)>> : u \in Units }

UnitMessages ==
    { [type |-> "SYNC_EVENTS", hasEvents |-> TRUE, events |-> l] : l \in UnitLists }

\* A weekly event anchored a week before the clock starts: its second
\* occurrence starts at 2024-02-29 23:58 and its third a week later.
evR == AppEvent("r", Ymd(2024, 2, 22), Hm(23, 58),
                <<Alert("r1", 0, "minutes"), Alert("r2", 1, "weeks")>>, Weekly(1))

\* Lists of recurring events: evR next to evC, whose anchor has an alert
\* that falls due at 2024-02-29 23:58.
RecurringMessages ==
    { [type |-> "SYNC_EVENTS", hasEvents |-> TRUE, events |-> <<evR, evC>>] }

PeriodicStarts ==
    { At(2024, 2, 29, (23 * 60 + 57) * 60000),
      StartOfClock,
      At(2024, 2, 29, (23 * 60 + 58) * 60000),
      At(2024, 2, 29, (23 * 60 + 58) * 60000 + 1) }

InitPeriodic ==
    /\ \E t \in PeriodicStarts : InitWorkerAt(t)
    /\ InitNoExpansion
    /\ InitNoApp

\* The one SYNC_EVENTS message of the run.
SyncOnce ==
    /\ received = 0
    /\ \E data \in Messages \cup UnitMessages \cup RecurringMessages :
          OnSyncEvents(data) /\ UNCHANGED appVars

\* Time passes until the pending polling timeout is due.
AdvanceToDue ==
    /\ advances < MaxAdvance
    /\ \E t \in timers :
          /\ DateLT(now, t.due)
          /\ now' = t.due
    /\ advances' = advances + 1
    /\ UNCHANGED <<scheduledEvents, notificationCheckTimeout, timers, timerSeq,
                   received, lastMessage, passCount, lastPass, lastFired, delivered>>
    /\ UNCHANGED <<expVars, clickVars, appVars>>

NextPeriodic ==
    \/ SyncOnce
    \/ AdvanceToDue
    \/ Tick

SpecPeriodic == InitPeriodic /\ [][NextPeriodic]_vars

----------------------------------------------------------------------------
(* The worker handed lists with malformed entries                          *)

\* A list entry that is null.
NullEntry == [shape |-> "null"]

\* The event with a number in its alerts field.
BadAlerts(event) ==
    [f \in DOMAIN event \cup {"shape"} |->
        IF f = "shape" THEN "alertsNotArray" ELSE IF f = "alerts" THEN 5 ELSE event[f]]

\* The event without its alerts field.
NoAlertsField(event) == [f \in DOMAIN event \ {"alerts"} |-> event[f]]

\* The event with a date string that names no calendar day (month 14).
BadDate(event) == [event EXCEPT !.date = Ymd(2023, 14, 29)]

\* The event with a start time string that names no time of day (hour 25).
BadStartTime(event) == [event EXCEPT !.startTime = Hm(25, 0)]

FaultyLists ==
    { <<evF>>,
      <<evK, evF>>,
      <<NullEntry, evF>>,
      <<evF, NullEntry>>,
      <<BadAlerts(evK), evF>>,
      <<NoAlertsField(evK), evF>>,
      <<BadDate(evK), evF>>,
      <<evF, BadStartTime(evK)>> }

FaultyMessages ==
    { [type |-> "SYNC_EVENTS", hasEvents |-> TRUE, events |-> l] : l \in FaultyLists }

NextFaulty ==
    \/ \E data \in FaultyMessages : OnSyncEvents(data) /\ UNCHANGED appVars
    \/ Tick
    \/ \E ms \in ClockSteps : Advance(ms)

SpecFaulty == Init /\ [][NextFaulty]_vars

----------------------------------------------------------------------------
(* The worker with a user acting on notifications and an application       *)
(* window that posts its event list                                        *)

AppLists == { <<evK, evG>> }

\* 2024-02-29 23:58:00.000
StartOfClicks == At(2024, 2, 29, (23 * 60 + 58) * 60000)

ClickClockSteps == {SnoozeDelay}

\* The application window has just been opened on a stored event list.
InitClick ==
    /\ InitWorkerAt(StartOfClicks)
    /\ InitNoExpansion
    /\ clientOpen = TRUE
    /\ events \in AppLists
    /\ calendars = DefaultCalendars
    /\ undoStack = <<>>
    /\ redoStack = <<>>
    /\ syncPending = TRUE
    /\ notificationPermission = "granted"
    /\ controller = TRUE

NextClick ==
    \/ PostSyncEvents
    \/ Tick
    \/ \E ms \in ClickClockSteps : Advance(ms)
    \/ \E notification \in displayed, action \in ClickActions :
          NotificationClick(notification, action)
    \/ SnoozeTimeout
    \/ HandleMessage
    \/ CloseWindow

SpecClick == InitClick /\ [][NextClick]_vars

\* The application window handles a posted message in its next task.
SpecClickFair == SpecClick /\ WF_vars(HandleMessage)

\* The worker with a user acting on notifications, an application window
\* that stays open and posts its event list, and messages of other types.
NextFrame ==
    \/ PostSyncEvents
    \/ \E data \in FrameMessages : OnMessage(data)
    \/ Tick
    \/ \E ms \in ClickClockSteps : Advance(ms)
    \/ \E notification \in displayed, action \in ClickActions :
          NotificationClick(notification, action)
    \/ SnoozeTimeout

SpecFrame == InitClick /\ [][NextFrame]_vars

\* The user deletes events in the open window while notifications for them
\* are on display, and marks notifications as done.
NextStale ==
    \/ PostSyncEvents
    \/ \E i \in DOMAIN events : DeleteEvent(events[i].id)
    \/ \E notification \in displayed : NotificationClick(notification, "mark_as_read")
    \/ HandleMessage
    \/ HandleUndo

SpecStale == InitClick /\ [][NextStale]_vars

----------------------------------------------------------------------------
(* The application window with a user editing events and calendars, and    *)
(* the worker receiving the lists it posts                                 *)

\* What the event form hands to addEvent: an event without id.
EventData(date, startTime, alerts, repeat) ==
    [date |-> date, startTime |-> startTime, alerts |-> alerts,
     isCompleted |-> FALSE, isAllDay |-> FALSE, repeat |-> repeat]

NewEventData ==
    { EventData(Ymd(2024, 3, 1), Hm(0, 58), <<Alert("alert-1", 1, "hours")>>, NoRepeat) }

\* The calendars and events found in localStorage when the window opens:
\* the default calendar and one the user added, with an event on each.
StoredCalendars ==
    DefaultCalendars
        \o << [id |-> NewCalendarId(At(2024, 2, 1, 0)), name |-> "Trabalho"] >>

StoredLists ==
    { << NewEvent(EventData(Ymd(2024, 2, 29), Hm(23, 58), <<>>, NoRepeat),
                  "cal-default", At(2024, 2, 1, 1)),
         NewEvent(EventData(Ymd(2024, 3, 1), Hm(0, 58),
                            <<Alert("alert-1", 1, "hours")>>, NoRepeat),
                  NewCalendarId(At(2024, 2, 1, 0)), At(2024, 2, 1, 2)) >> }

\* The start time the user changes an event to.
EditedStartTime == Hm(10, 0)

\* The VEVENT blocks of the files the user imports: an event of a new
\* category, a weekly meeting, and the block that moves one occurrence of the
\* meeting, which carries the UID of the meeting.
ICSFiles ==
    { << [uid |-> <<"uid-1">>, category |-> "Casa",
          date |-> Ymd(2024, 3, 5), startTime |-> Hm(9, 0)],
         [uid |-> <<"uid-2">>, category |-> "Pessoal",
          date |-> Ymd(2024, 3, 6), startTime |-> Hm(9, 0)],
         [uid |-> <<"uid-2">>, category |-> "Pessoal",
          date |-> Ymd(2024, 3, 14), startTime |-> Hm(10, 0)] >> }

\* What the browser reports as Notification.permission when the window
\* opens, and what the user answers when asked.
Permissions == {"default", "granted"}

Answers == {"granted", "denied"}

\* The application window has just been opened: its state is read from
\* storage and the permission from the browser, the sync effect is due.
InitApp ==
    /\ InitWorkerAt(StartOfClicks)
    /\ InitNoExpansion
    /\ clientOpen = TRUE
    /\ events \in StoredLists
    /\ calendars = StoredCalendars
    /\ undoStack = <<>>
    /\ redoStack = <<>>
    /\ syncPending = TRUE
    /\ notificationPermission \in Permissions
    /\ controller \in BOOLEAN

\* The event form is submitted at most once in a millisecond of the clock, so
\* addEvent never runs twice on the same Date.now(); the operations that save
\* a snapshot run while the undo stack is short of MaxHistory.
NextApp ==
    \/ \E eventData \in NewEventData :
          /\ Len(undoStack) < MaxHistory
          /\ \A k \in DOMAIN events : events[k].id # NewEventId(now)
          /\ \E i \in DOMAIN calendars : AddEvent(eventData, calendars[i].id)
    \/ \E i \in DOMAIN events :
          /\ Len(undoStack) < MaxHistory
          /\ EditEvent([events[i] EXCEPT !.startTime = EditedStartTime])
    \/ \E i \in DOMAIN events :
          Len(undoStack) < MaxHistory /\ DeleteEvent(events[i].id)
    \/ \E i \in DOMAIN calendars :
          Len(undoStack) < MaxHistory /\ DeleteCalendar(calendars[i].id)
    \/ \E parsed \in ICSFiles :
          Len(undoStack) < MaxHistory /\ ImportICS(parsed)
    \/ HandleUndo
    \/ HandleRedo
    \/ \E permission \in Answers : RequestNotificationPermission(permission)
    \/ ClientsClaim
    \/ PostSyncEvents
    \/ SkipSyncEvents

SpecApp == InitApp /\ [][NextApp]_vars

\* A long session of edits: the user saves the event form over and over,
\* deletes an event, and walks the history back and forth.  The undo stack
\* is as long as saveStateToHistory lets it grow.
InitHistory ==
    /\ InitApp
    /\ notificationPermission = "default"
    /\ ~controller

NextHistory ==
    \/ EditEvent([events[1] EXCEPT !.startTime = EditedStartTime])
    \/ \E i \in DOMAIN events : i > 1 /\ DeleteEvent(events[i].id)
    \/ HandleUndo
    \/ HandleRedo
    \/ SkipSyncEvents

SpecHistory == InitHistory /\ [][NextHistory]_vars

----------------------------------------------------------------------------
(* Inputs of the expander                                                  *)

ExpandEvents ==
    { AppEvent("n1", Ymd(2024, 1, 31), Hm(9, 0), <<>>, NoRepeat),
      AppEvent("n2", Ymd(2024, 2, 2), Hm(9, 0), <<>>, NoRepeat),
      AppEvent("d1", Ymd(2024, 1, 29), Hm(9, 0), <<>>, Daily(1)),
      Completed(AppEvent("d2", Ymd(2024, 1, 29), Hm(14, 30),
                         <<Alert("a1", 10, "minutes")>>, Daily(2))),
      AppEvent("w1", Ymd(2024, 1, 24), Hm(9, 0), <<>>, Weekly(1)),
      AppEvent("m1", Ymd(2024, 1, 31), Hm(9, 0), <<>>, Monthly(1)),
      AppEvent("y1", Ymd(2024, 2, 29), Hm(9, 0), <<>>, Yearly(1)) }

RECURSIVE ListsUpTo(_, _)
\* The lists of at most n events of S with pairwise distinct ids.
ListsUpTo(S, n) ==
    IF n = 0 THEN { <<>> }
    ELSE LET shorter == ListsUpTo(S, n - 1)
         IN  shorter \cup
             { Append(l, e) : l \in { x \in shorter : Len(x) = n - 1 },
                              e \in S }

DistinctIds(l) == \A i, j \in DOMAIN l : i # j => l[i].id # l[j].id

\* The lists of the events above, and a list of two events that repeat
\* every other week and every third day.
ExpandLists ==
    { l \in ListsUpTo(ExpandEvents, MaxLen) : DistinctIds(l) }
        \cup { << AppEvent("w2", Ymd(2024, 1, 17), Hm(9, 0), <<>>, Weekly(2)),
                  AppEvent("d3", Ymd(2024, 1, 30), Hm(9, 0), <<>>, Daily(3)) >> }

LastMs == MsPerDay - 1

\* Windows around the anchors, with bounds on and off midnight.
ShortWindows ==
    { w \in [start : { At(2024, 1, dd, ms) : dd \in 29..31, ms \in {0, 1} }
                     \cup { At(2024, 2, 1, 0) },
             end   : { At(2024, 1, dd, ms) : dd \in 30..31, ms \in {0, LastMs} }
                     \cup { At(2024, 2, dd, LastMs) : dd \in {1, 7} }] :
        DateLE(w.start, w.end) }

\* Windows as the calendar grid builds them: whole days.
LongWindows ==
    { [start |-> At(2024, 1, 1, 0), end |-> At(2024, 4, 30, LastMs)] }

\* Windows whose two bounds are the same instant of 2024-01-31.
ZeroWindows ==
    { [start |-> t, end |-> t] :
        t \in { At(2024, 1, 31, ms) : ms \in {0, 1, 12 * 3600000} } }

Windows == ShortWindows \cup LongWindows \cup ZeroWindows

\* A call of the expander about to be made on a list and a window.
InitExpandOver(lists, windows) ==
    /\ InitWorker
    /\ InitNoApp
    /\ baseEvents \in lists
    /\ \E w \in windows : viewStart = w.start /\ viewEnd = w.end
    /\ pcE = "call"
    /\ idx = 1
    /\ cursorDate = InvalidDate
    /\ allOccurrences = <<>>
    /\ calls = 0
    /\ firstResult = <<>>
    /\ inputEvents = baseEvents

InitExpand == InitExpandOver(ExpandLists, Windows)

NextExpand ==
    \/ ExpandCall
    \/ ExpandSingle
    \/ ExpandRepeatStart
    \/ ExpandLoopStep
    \/ ExpandLoopExit
    \/ ExpandReturn
    \/ ExpandAgain

SpecExpand == InitExpand /\ [][NextExpand]_vars

\* The expansion of one event at a time; the function runs to completion once
\* called (synchronous code), hence the weak fairness of its steps.
InitExpandOne ==
    /\ InitExpand
    /\ Len(baseEvents) = 1

SpecExpandFair == InitExpandOne /\ [][NextExpand]_vars /\ WF_vars(NextExpand)

\* The expansion over the five years 2024..2028 of lists of single events and
\* of events that repeat every month, every year and every other year.
YearEvents ==
    { e \in ExpandEvents : e.repeat.frequency \in {"none", "monthly", "yearly"} }
        \cup { AppEvent("y2", Ymd(2023, 3, 15), Hm(9, 0), <<>>, Yearly(2)) }

InitYears ==
    InitExpandOver({ l \in ListsUpTo(YearEvents, MaxLen) : DistinctIds(l) },
                   { [start |-> At(2024, 1, 1, 0), end |-> At(2028, 12, 31, LastMs)] })

SpecYears == InitYears /\ [][NextExpand]_vars

----------------------------------------------------------------------------
(* One event list with a record whose date cannot be parsed, handed to the *)
(* expander and to the worker                                              *)

\* A daily event with two alerts due at 2024-02-29 23:58.
evW == AppEvent("w", Ymd(2024, 3, 1), Hm(0, 58),
                <<Alert("w1", 1, "hours"), Alert("w2", 60, "minutes")>>, Daily(1))

BadDateLists ==
    { <<BadDate(evK), evF>>,
      <<evC, BadDate(evW)>>,
      <<BadDate(evW), evF, evK>> }

\* The records of a list whose date names a calendar day.
WithoutBadDates(list) ==
    LET Parsable(event) == WellFormedDate(event.date)
    IN  SelectSeq(list, Parsable)

\* The application on a list with a bad record: the calendar grid is about
\* to expand it over February and March 2024.
InitBadDate ==
    /\ InitWorkerAt(StartOfClicks)
    /\ InitNoApp
    /\ baseEvents \in BadDateLists
    /\ viewStart = At(2024, 2, 1, 0)
    /\ viewEnd = At(2024, 3, 31, LastMs)
    /\ pcE = "call"
    /\ idx = 1
    /\ cursorDate = InvalidDate
    /\ allOccurrences = <<>>
    /\ calls = 0
    /\ firstResult = <<>>
    /\ inputEvents = baseEvents

\* The bad records are deleted from the list and the grid expands it again.
ExpandWithoutBad ==
    /\ pcE = "done"
    /\ calls < MaxCalls
    /\ baseEvents' = WithoutBadDates(baseEvents)
    /\ pcE' = "call"
    /\ UNCHANGED <<swVars, clickVars, appVars>>
    /\ UNCHANGED <<viewStart, viewEnd, idx, cursorDate, allOccurrences,
                   calls, firstResult, inputEvents>>

\* The list as it stands is posted to the worker, which handles it.
SyncBaseEvents ==
    /\ OnSyncEvents([type |-> "SYNC_EVENTS", hasEvents |-> TRUE, events |-> baseEvents])
    /\ UNCHANGED appVars

NextBadDate ==
    \/ ExpandCall
    \/ ExpandSingle
    \/ ExpandRepeatStart
    \/ ExpandLoopStep
    \/ ExpandLoopExit
    \/ ExpandReturn
    \/ ExpandWithoutBad
    \/ SyncBaseEvents
    \/ Tick
    \/ Advance(PollingDelay)

SpecBadDate == InitBadDate /\ [][NextBadDate]_vars

----------------------------------------------------------------------------
(* Properties of expandRecurringEvents                                     *)

\* Instant a is not after instant b.
NotAfter(a, b) == a.day < b.day \/ (a.day = b.day /\ a.ms <= b.ms)

\* Local midnight of the calendar day with day number n.
Midnight(n) == [day |-> n, ms |-> 0]

\* Day number of a date string.
DayOf(s) == DaysFromCivil(s.y, s.m, s.d)

\* Local midnight of day n lies within [viewStart, viewEnd].
DayInWindow(n) == NotAfter(viewStart, Midnight(n)) /\ NotAfter(Midnight(n), viewEnd)

\* The occurrences of the result that were cloned from a recurring event.
OccurrencesOf(event) ==
    LET FromEvent(o) == Len(o.id) = 4 /\ o.id[1] = event.id[1]
    IN  SelectSeq(allOccurrences, FromEvent)

\* The day that follows day n in the series of a repeat rule.
NextInSeries(n, rule) ==
    LET c == CivilFromDays(n)
    IN  CASE rule.frequency = "daily" -> n + rule.interval
          [] rule.frequency = "weekly" -> n + 7 * rule.interval
          [] rule.frequency = "monthly" ->
                DaysFromCivil(c.y + (c.m - 1 + rule.interval) \div 12,
                              ((c.m - 1 + rule.interval) % 12) + 1, 1) + c.d - 1
          [] rule.frequency = "yearly" ->
                DaysFromCivil(c.y + rule.interval, c.m, 1) + c.d - 1

RECURSIVE SeriesFrom(_, _, _)
\* The days of the series from day n on that are not after day last.
SeriesFrom(n, rule, last) ==
    IF n > last THEN <<>>
    ELSE <<n>> \o SeriesFrom(NextInSeries(n, rule), rule, last)

\* The days of an event's series whose midnight lies within the window, in order.
SeriesInWindow(event) ==
    SelectSeq(SeriesFrom(DayOf(event.date), event.repeat, viewEnd.day), DayInWindow)

\* C3: every occurrence in the result, recurring or not, is dated (at local
\* midnight) within [windowStart, windowEnd].
C3_WindowContainment ==
    \A i \in DOMAIN allOccurrences : DayInWindow(DayOf(allOccurrences[i].date))

\* C3 witness: a finished expansion that returned a recurring and a single
\* occurrence while the series began before the window.
C3_Witness ==
    /\ pcE = "done"
    /\ \E i, j \in DOMAIN allOccurrences :
          /\ Len(allOccurrences[i].id) = 4
          /\ Len(allOccurrences[j].id) = 1
    /\ \E k \in DOMAIN baseEvents :
          /\ HasRepeat(baseEvents[k])
          /\ ~DayInWindow(DayOf(baseEvents[k].date))

\* C4: for a recurring event the result holds exactly one occurrence for each
\* date of its series within the window, in series order, with the composite
\* id, and no two of them share an id.
C4_ExactSeries ==
    pcE = "done" =>
        \A k \in DOMAIN baseEvents :
            HasRepeat(baseEvents[k]) =>
                LET event == baseEvents[k]
                    got == OccurrencesOf(event)
                    want == SeriesInWindow(event)
                IN  /\ Len(got) = Len(want)
                    /\ \A i \in DOMAIN got :
                          /\ DayOf(got[i].date) = want[i]
                          /\ got[i].id = event.id \o
                                <<got[i].date.y, got[i].date.m, got[i].date.d>>
                    /\ \A i, j \in DOMAIN got : i # j => got[i].id # got[j].id

\* C4 witness: a finished expansion of a series that starts before the window
\* and has an occurrence dated on the last day of the window.
C4_Witness ==
    /\ pcE = "done"
    /\ \E k \in DOMAIN baseEvents :
          /\ HasRepeat(baseEvents[k])
          /\ DayOf(baseEvents[k].date) < viewStart.day
          /\ Len(OccurrencesOf(baseEvents[k])) >= 2
          /\ \E i \in DOMAIN allOccurrences :
                /\ allOccurrences[i].id[1] = baseEvents[k].id[1]
                /\ Midnight(DayOf(allOccurrences[i].date)) = viewEnd

\* C5: an event without a repeat rule is in the result exactly once when its
\* anchor date lies within the window (bounds inclusive), and not at all
\* otherwise.
C5_SingleEvent ==
    pcE = "done" =>
        \A k \in DOMAIN baseEvents :
            ~HasRepeat(baseEvents[k]) =>
                LET event == baseEvents[k]
                    IsEvent(o) == o = event
                    copies == Len(SelectSeq(allOccurrences, IsEvent))
                IN  copies = IF DayInWindow(DayOf(event.date)) THEN 1 ELSE 0

\* C5 witness: one single event anchored exactly on windowStart is returned,
\* another one anchored outside the window is not.
C5_Witness ==
    /\ pcE = "done"
    /\ \E j, k \in DOMAIN baseEvents :
          /\ ~HasRepeat(baseEvents[j])
          /\ ~HasRepeat(baseEvents[k])
          /\ Midnight(DayOf(baseEvents[j].date)) = viewStart
          /\ \E i \in DOMAIN allOccurrences : allOccurrences[i] = baseEvents[j]
          /\ ~DayInWindow(DayOf(baseEvents[k].date))
          /\ \A i \in DOMAIN allOccurrences : allOccurrences[i] # baseEvents[k]

\* The window covers whole days, as the calendar grid builds it.
WholeDays == viewStart.ms = 0 /\ viewEnd.ms = MsPerDay - 1

\* C6: a daily event with interval 1 anchored at day D, expanded over a window
\* of N consecutive days starting at or after D, yields exactly N occurrences,
\* one per day of the window, with strictly increasing dates.
C6_DailyCoverage ==
    (pcE = "done" /\ WholeDays) =>
        \A k \in DOMAIN baseEvents :
            LET event == baseEvents[k]
                got == OccurrencesOf(event)
                N == viewEnd.day - viewStart.day + 1
            IN  (event.repeat = [frequency |-> "daily", interval |-> 1]
                 /\ DayOf(event.date) <= viewStart.day) =>
                    /\ Len(got) = N
                    /\ \A i \in DOMAIN got : DayOf(got[i].date) = viewStart.day + i - 1
                    /\ \A i \in DOMAIN got :
                          i > 1 => DayOf(got[i - 1].date) < DayOf(got[i].date)

\* C6 witness: a daily event expanded over a whole-day window of at least three
\* days that starts after the anchor.
C6_Witness ==
    /\ pcE = "done"
    /\ WholeDays
    /\ viewEnd.day - viewStart.day + 1 >= 3
    /\ \E k \in DOMAIN baseEvents :
          /\ baseEvents[k].repeat = [frequency |-> "daily", interval |-> 1]
          /\ DayOf(baseEvents[k].date) < viewStart.day
          /\ Len(OccurrencesOf(baseEvents[k])) >= 3

\* C7: a second call with the same events and window returns the same list
\* (ids, dates, order) as the first, and no call changes the input records.
C7_Idempotent ==
    /\ baseEvents = inputEvents
    /\ (pcE = "done" /\ calls >= 2) => allOccurrences = firstResult

\* C7 witness: the second call has returned a list of several occurrences.
C7_Witness ==
    /\ pcE = "done"
    /\ calls = 2
    /\ Len(allOccurrences) >= 2
    /\ \E i \in DOMAIN allOccurrences : Len(allOccurrences[i].id) = 4

\* A step of the while loop moves the cursor strictly forward.
CursorIncreases ==
    (pcE = "while" /\ pcE' = "while") => DateLT(cursorDate, cursorDate')

\* C8: for every recurring event with interval >= 1 and every frequency the
\* loop terminates: each step strictly increases the cursor and the loop is
\* eventually left.
C8_LoopTerminates ==
    /\ [][CursorIncreases]_vars
    /\ (pcE = "while") ~> (pcE = "forEach")

\* C8 witness: the loop of a monthly series has been left after pushing at
\* least two occurrences.
C8_Witness ==
    /\ pcE = "forEach"
    /\ idx > 1
    /\ baseEvents[idx - 1].repeat.frequency = "monthly"
    /\ baseEvents[idx - 1].repeat.interval >= 1
    /\ Len(OccurrencesOf(baseEvents[idx - 1])) >= 2

----------------------------------------------------------------------------
(* Properties of the notification scheduler                                *)

\* Instant t moved forward by k milliseconds.
PlusMs(t, k) ==
    LET total == t.ms + k
    IN  [day |-> t.day + total \div MsPerDay, ms |-> total % MsPerDay]

\* The tags of the showNotification calls of the last evaluation pass.
LastTags == { lastPass.shown[n].tag : n \in DOMAIN lastPass.shown }

\* The last pass evaluated this event: it has alerts, is not completed and
\* its start instant parses.
Evaluated(event) ==
    /\ Len(event.alerts) > 0
    /\ ~event.isCompleted
    /\ ~IsNaN(ParseEventTime(event))

\* C1: the same alert instance (event id, alert id) of an event whose date,
\* start time and alert rule do not change is never delivered by two
\* evaluation passes.
C1_NeverDeliveredTwice ==
    \A k \in DOMAIN delivered : delivered[k] <= 1

\* C2: a pass run at instant now delivers an alert of an evaluated event
\* starting at T exactly when 0 <= now - (T - convert(v, u)) < 60000 ms, that
\* is N <= now < N + 60000 for the notification instant N; for minutes and
\* hours N lies the fixed duration before T.
C2_DueWindow ==
    passCount > 0 =>
        \A i \in DOMAIN scheduledEvents :
            Evaluated(scheduledEvents[i]) =>
                \A j \in DOMAIN scheduledEvents[i].alerts :
                    LET event == scheduledEvents[i]
                        alert == event.alerts[j]
                        T == ParseEventTime(event)
                        N == NotificationTime(T, alert)
                    IN  /\ (event.id \o <<alert.id>> \in LastTags)
                            <=> (/\ NotAfter(N, lastPass.at)
                                 /\ ~NotAfter(PlusMs(N, 60000), lastPass.at))
                        /\ alert.unit = "minutes" => PlusMs(N, alert.value * 60000) = T
                        /\ alert.unit = "hours" => PlusMs(N, alert.value * 3600000) = T

\* C2 witness: a pass run 59999 ms after the notification instant of a
\* 15-minute alert delivered it.
C2_Witness ==
    /\ passCount > 0
    /\ \E i \in DOMAIN scheduledEvents :
          /\ Evaluated(scheduledEvents[i])
          /\ \E j \in DOMAIN scheduledEvents[i].alerts :
                LET event == scheduledEvents[i]
                    alert == event.alerts[j]
                IN  /\ alert.unit = "minutes"
                    /\ alert.value = 15
                    /\ lastPass.at = PlusMs(NotificationTime(ParseEventTime(event), alert), 59999)
                    /\ event.id \o <<alert.id>> \in LastTags

\* C9: at most one polling timer is pending in every reachable state.
C9_OneTimer == Cardinality(timers) <= 1

\* C9 witness: a second list arrived while the timer set by the first pass was
\* still pending (the clock has not moved), and one timer is pending.
C9_Witness ==
    /\ passCount >= 2
    /\ advances = 0
    /\ Cardinality(timers) = 1

\* The step in which the listener handles a SYNC_EVENTS message.
SyncStep ==
    /\ received' = received + 1
    /\ lastMessage'.type = "SYNC_EVENTS"

\* What the handling of a SYNC_EVENTS message does.
SyncEffect ==
    /\ scheduledEvents' = IF lastMessage'.hasEvents THEN lastMessage'.events ELSE <<>>
    /\ timers \cap timers' = {}
    /\ passCount' = passCount + 1
    /\ lastPass'.at = now
    /\ now' = now
    /\ Cardinality(timers') = 1
    /\ \A t \in timers' : t.due = PlusMs(now, 60000)

\* C10: every SYNC_EVENTS message replaces the stored list by the message's
\* list (the empty list when it carries none), cancels the pending tick, runs
\* exactly one pass at once and leaves exactly one tick pending, due 60
\* seconds after the message.
C10_SyncRestartsPolling == [][SyncStep => SyncEffect]_vars

\* C10 witness: a list arrived 1 ms after the first pass; the only pending
\* tick is due 60 seconds after that arrival, not after the first pass.
C10_Witness ==
    /\ passCount = 2
    /\ advances = 1
    /\ now = PlusMs(StartOfClock, 1)
    /\ lastPass.at = now
    /\ scheduledEvents # <<>>
    /\ timers = { [id |-> 2, due |-> PlusMs(now, 60000)] }

\* The step in which a polling timeout fires and runs a pass.
TickStep ==
    /\ passCount' = passCount + 1
    /\ received' = received

\* C11: only the tick set by the latest pass ever fires (a tick set before a
\* later list arrived never does), no superseded tick is pending, and every
\* pass, whether run by a tick or by a message, reads the list stored by the
\* latest SYNC_EVENTS message.
C11_LatestListOnly ==
    /\ [][TickStep => /\ lastFired' = notificationCheckTimeout
                      /\ lastFired' = timerSeq
                      /\ scheduledEvents' = scheduledEvents
                      /\ lastPass'.list = scheduledEvents]_vars
    /\ [][SyncStep => /\ lastPass'.list = ReceivedList(lastMessage', scheduledEvents)
                      /\ \A t \in timers' : t.id > timerSeq]_vars
    /\ [](\A t \in timers : t.id = notificationCheckTimeout)

\* C11 witness: two lists arrived with the clock standing still (timeouts 1
\* and 2 were set), then the clock moved and timeout 2 fired: the third pass
\* read the second list and timeout 1 never ran.
C11_Witness ==
    /\ received = 2
    /\ passCount = 3
    /\ timerSeq = 3
    /\ lastFired = 2
    /\ lastMessage.type = "SYNC_EVENTS"
    /\ lastMessage.events # <<>>
    /\ lastPass.list = lastMessage.events
    /\ Len(lastPass.shown) > 0

\* An alert of this event is inside its 60-second due window at instant t.
HasDueAlert(event, t) ==
    /\ ~IsNaN(ParseEventTime(event))
    /\ \E j \in DOMAIN event.alerts :
          IsDue(TimeDifference(t, NotificationTime(ParseEventTime(event), event.alerts[j])))

\* The showNotification calls of the last pass that carry this event's id.
ShownFor(event) ==
    { n \in DOMAIN lastPass.shown : lastPass.shown[n].data.eventId = event.id }

\* C12: a pass shows no notification for an event of its list whose
\* isCompleted flag is true, also when an alert of the event is due.
C12_CompletedSilent ==
    \A i \in DOMAIN lastPass.list :
        lastPass.list[i].isCompleted => ShownFor(lastPass.list[i]) = {}

\* C12 witness: a pass ran over a list holding a completed event with an
\* alert inside its due window, and showed something for another event.
C12_Witness ==
    /\ passCount > 0
    /\ \E i \in DOMAIN lastPass.list :
          /\ lastPass.list[i].isCompleted
          /\ HasDueAlert(lastPass.list[i], lastPass.at)
    /\ Len(lastPass.shown) > 0

\* C13: a pass shows no notification for an event of its list whose isAllDay
\* flag is true, whatever the time of the pass.
C13_AllDaySilent ==
    \A i \in DOMAIN lastPass.list :
        lastPass.list[i].isAllDay => ShownFor(lastPass.list[i]) = {}

----------------------------------------------------------------------------
(* Properties of the notificationclick listener and the application        *)

\* The step in which the listener handles a notificationclick event.
ClickStep == clicks' = clicks + 1

\* The step in which the callback of a snooze timeout runs.
SnoozeFireStep == lastSnooze' # lastSnooze

\* The number of snoozes behind a notification, read off its tag: the alert
\* tag has two parts and every snooze appends two.
SnoozesInTag(notification) == (Len(notification.tag) - 2) \div 2

\* C14: no notification of a chain is more than 2 snoozes away from the
\* original alert notification (on display or waiting in a snooze timeout),
\* and a snooze action on a notification whose snoozeCount is 2 sets no
\* timeout and shows nothing.
C14_SnoozeLimit ==
    /\ [](/\ \A n \in displayed :
               n.data.snoozeCount <= 2 /\ SnoozesInTag(n) = n.data.snoozeCount
          /\ \A t \in snoozeTimers :
               /\ t.snoozeCount <= 2
               /\ t.snoozeCount = t.notification.data.snoozeCount + 1)
    /\ [][(ClickStep /\ lastClick'.action = "snooze"
                     /\ lastClick'.notification.data.snoozeCount >= 2)
            => /\ snoozeTimers' = snoozeTimers
               /\ displayed' = displayed \ {lastClick'.notification}]_vars

\* C14 witness: the snooze action was used on a notification that had been
\* snoozed twice, and no snooze timeout is pending.
C14_Witness ==
    /\ lastClick.action = "snooze"
    /\ lastClick.notification.data.snoozeCount = 2
    /\ SnoozesInTag(lastClick.notification) = 2
    /\ snoozeTimers = {}

\* The tags of the chain a notification belongs to, up to the notification
\* itself: the alert tag and the tag after each snooze.
ChainTags(notification) ==
    { SubSeq(notification.tag, 1, 2 + 2 * j) : j \in 0..SnoozesInTag(notification) }

\* C15: a snooze action on a notification with snoozeCount n < 2 sets exactly
\* one timeout, due 5 minutes later, and delivers nothing itself; when the
\* timeout runs (not before it is due) exactly one notification is
\* delivered, with snoozeCount n + 1, the same eventId, and a tag that is
\* neither the alert tag nor the tag of an earlier notification of the chain.
C15_SnoozeDelivers ==
    /\ [][(ClickStep /\ lastClick'.action = "snooze"
                     /\ lastClick'.notification.data.snoozeCount < 2)
            => /\ \E t \in snoozeTimers' :
                     /\ t \notin snoozeTimers
                     /\ snoozeTimers' = snoozeTimers \cup {t}
                     /\ t.due = PlusMs(now, 5 * 60 * 1000)
                     /\ t.notification = lastClick'.notification
               /\ displayed' = displayed \ {lastClick'.notification}]_vars
    /\ [][SnoozeFireStep
            => LET t == lastSnooze'.timer
                   n == lastSnooze'.shown
               IN  /\ t \in snoozeTimers
                   /\ snoozeTimers' = snoozeTimers \ {t}
                   /\ NotAfter(t.due, now)
                   /\ n.data.snoozeCount = t.notification.data.snoozeCount + 1
                   /\ n.data.eventId = t.notification.data.eventId
                   /\ n.tag \notin ChainTags(t.notification)
                   /\ n \in displayed'
                   /\ displayed' \ displayed \subseteq {n}
                   /\ \A m \in displayed \ displayed' : m.tag = n.tag]_vars

\* C15 witness: the second snoozed notification of a chain was delivered,
\* 10 minutes after the alert notification, and is on display.
C15_Witness ==
    /\ lastSnooze # NoSnooze
    /\ lastSnooze.shown.data.snoozeCount = 2
    /\ lastSnooze.at = PlusMs(StartOfClicks, 2 * 5 * 60 * 1000)
    /\ lastSnooze.shown \in displayed

\* The list holds this event id with isCompleted = true.
CompletedIn(list, eventId) ==
    \E i \in DOMAIN list : list[i].id = eventId /\ list[i].isCompleted

\* C16: no step delivers a notification for an event that the list stored
\* by the scheduler at that moment holds as completed: neither an
\* evaluation pass nor the callback of a snooze timeout set earlier.
C16_NothingAfterCompleted ==
    /\ \A n \in DOMAIN lastPass.shown :
          ~CompletedIn(lastPass.list, lastPass.shown[n].data.eventId)
    /\ lastSnooze # NoSnooze =>
          ~CompletedIn(lastSnooze.list, lastSnooze.shown.data.eventId)

\* The step in which the application handles a message from the worker.
HandleStep == clientInbox # <<>> /\ clientInbox' = Tail(clientInbox)

\* The list with isCompleted set on the events with this id and nothing else
\* changed.
WithCompleted(list, eventId) ==
    [i \in DOMAIN list |->
        IF list[i].id = eventId THEN [list[i] EXCEPT !.isCompleted = TRUE] ELSE list[i]]

MarkMessage(eventId) == [type |-> "MARK_EVENT_AS_COMPLETED", eventId |-> eventId]

\* The ids of the events the application starts with.
AppEventIds == UNION { { l[i].id : i \in DOMAIN l } : l \in AppLists }

\* C17: a 'mark as done' click on a notification for event E with an
\* application window open posts MARK_EVENT_AS_COMPLETED with E's id and runs
\* no evaluation pass (no pass, the polling timeout and the stored list
\* untouched); the application, handling the message, sets isCompleted on E
\* and leaves every other field and every other event as it was; and a
\* posted message is eventually handled.
C17_MarkAsDone ==
    /\ [][(ClickStep /\ lastClick'.action = "mark_as_read" /\ clientOpen)
            => /\ clientInbox' = Append(clientInbox,
                                        MarkMessage(lastClick'.notification.data.eventId))
               /\ passCount' = passCount
               /\ lastPass' = lastPass
               /\ timers' = timers
               /\ scheduledEvents' = scheduledEvents
               /\ events' = events]_vars
    /\ [][HandleStep => events' = WithCompleted(events, Head(clientInbox).eventId)]_vars
    /\ \A e \in AppEventIds :
          (\E n \in DOMAIN clientInbox : clientInbox[n] = MarkMessage(e))
             ~> CompletedIn(events, e)

\* C17 witness: 'mark as done' was used on a notification of event k, the
\* application has handled the message: k is completed, the other event and
\* k's other fields are as they were at the start.
C17_Witness ==
    /\ lastClick.action = "mark_as_read"
    /\ clientInbox = <<>>
    /\ events = <<Completed(evK), evG>>
    /\ Len(undoStack) = 1

----------------------------------------------------------------------------
(* Properties of the evaluation pass over malformed lists                  *)

\* C18: once a first list has been received, a next tick is pending after
\* every evaluation pass, whatever the entries of the stored list.
C18_PollingNeverStops ==
    passCount > 0 => \E t \in timers : t.id = notificationCheckTimeout

\* An entry that is an object with an alerts array.
WellFormedEntry(event) == Shape(event) = "ok" /\ "alerts" \in DOMAIN event

\* C19: in every pass, every event of the list that is not completed and has
\* an alert inside its due window gets a notification, whatever happens
\* while the other entries of the list are processed.
C19_FailureIsolated ==
    \A i \in DOMAIN lastPass.list :
        LET event == lastPass.list[i]
        IN  (/\ WellFormedEntry(event)
             /\ ~event.isCompleted
             /\ HasDueAlert(event, lastPass.at))
            => ShownFor(event) # {}

----------------------------------------------------------------------------
(* Properties of a list with an unparsable record                          *)

\* The entries of a list whose start instant the pass can parse.
WithoutBadStarts(list) ==
    LET Parsable(event) == WellFormedDate(event.date) /\ WellFormedTime(event.startTime)
    IN  SelectSeq(list, Parsable)

\* C20: a record whose date cannot be parsed yields no occurrence, and the
\* expansion of the list equals the expansion of the list without it; a
\* record whose date and start time cannot be parsed yields no notification
\* in a pass, the pass ends without an exception, and its notifications are
\* those of a pass over the list without the record.
C20_BadDateIgnored ==
    /\ \A k \in DOMAIN inputEvents :
          ~WellFormedDate(inputEvents[k].date) =>
              \A i \in DOMAIN allOccurrences :
                  allOccurrences[i].id[1] # inputEvents[k].id[1]
    /\ (pcE = "done" /\ calls >= 2) =>
          /\ baseEvents = WithoutBadDates(inputEvents)
          /\ allOccurrences = firstResult
    /\ passCount > 0 =>
          /\ ~lastPass.threw
          /\ lastPass.shown = PassShown(WithoutBadStarts(lastPass.list), lastPass.at, 1)
          /\ \A i \in DOMAIN lastPass.list :
                ~WellFormedDate(lastPass.list[i].date) => ShownFor(lastPass.list[i]) = {}

\* C20 witness: the list with a bad recurring record was expanded, then the
\* list without it, both to a non-empty result; and a pass over the list with
\* the bad record showed a notification of another event.
C20_Witness ==
    /\ pcE = "done"
    /\ calls = 2
    /\ Len(baseEvents) < Len(inputEvents)
    /\ \E k \in DOMAIN inputEvents :
          ~WellFormedDate(inputEvents[k].date) /\ HasRepeat(inputEvents[k])
    /\ Len(allOccurrences) > 0
    /\ Len(lastPass.list) = Len(inputEvents)
    /\ Len(lastPass.shown) > 0

----------------------------------------------------------------------------
(* Properties of the polling period                                        *)

\* The number of passes that delivered this alert instance.
DeliveredCount(event, alert) ==
    LET k == InstanceKey(event, alert)
    IN  IF k \in DOMAIN delivered THEN delivered[k] ELSE 0

\* The instant of the first pass when the passes ran 60000 ms apart.
FirstPassAt == PlusMs(lastPass.at, 0 - (passCount - 1) * 60000)

\* C21: with one list and passes exactly 60000 ms apart, an alert of a
\* non-completed event whose notification instant lies after the first pass
\* has been delivered by exactly one pass once a pass has run at or after that
\* instant, and by none before.
C21_ExactlyOnce ==
    passCount > 0 =>
        \A i \in DOMAIN scheduledEvents :
            Evaluated(scheduledEvents[i]) =>
                \A j \in DOMAIN scheduledEvents[i].alerts :
                    LET event == scheduledEvents[i]
                        alert == event.alerts[j]
                        N == NotificationTime(ParseEventTime(event), alert)
                    IN  DateLT(FirstPassAt, N) =>
                            DeliveredCount(event, alert) =
                                IF DateLE(N, lastPass.at) THEN 1 ELSE 0

\* C21 witness: three passes ran 60 seconds apart; an alert whose instant is
\* the instant of the second pass has been delivered once, and another alert
\* of the list is not yet due.
C21_Witness ==
    /\ passCount = 3
    /\ \E i \in DOMAIN scheduledEvents :
          /\ Evaluated(scheduledEvents[i])
          /\ \E j, k \in DOMAIN scheduledEvents[i].alerts :
                LET event == scheduledEvents[i]
                    T == ParseEventTime(event)
                IN  /\ NotificationTime(T, event.alerts[j]) = PlusMs(FirstPassAt, 60000)
                    /\ DeliveredCount(event, event.alerts[j]) = 1
                    /\ DateLT(lastPass.at, NotificationTime(T, event.alerts[k]))
                    /\ DeliveredCount(event, event.alerts[k]) = 0

\* The step in which an evaluation pass runs (by a message or by a tick).
PassStep == passCount' = passCount + 1

\* The count of passes that delivered an alert instance, in a given record.
CountIn(d, event, alert) ==
    LET k == InstanceKey(event, alert)
    IN  IF k \in DOMAIN d THEN d[k] ELSE 0

\* The alert instances (event, alert index) of a list whose start parses.
Instances(list) ==
    UNION { { <<list[i], j>> : j \in DOMAIN list[i].alerts } :
            i \in { n \in DOMAIN list : ~IsNaN(ParseEventTime(list[n])) } }

\* The notification instant of an instance.
InstantOf(inst) == NotificationTime(ParseEventTime(inst[1]), inst[1].alerts[inst[2]])

\* C22: when a pass runs more than 60000 ms after the pass before it, an
\* alert whose notification instant lies after the earlier pass and 60000 ms
\* or more before the later one has been delivered by no pass up to and
\* including the later one; and no pass ever delivers an alert whose instant
\* lies 60000 ms or more before it, so no later pass delivers it either.
C22_LatePassSkips ==
    /\ [][(PassStep /\ passCount > 0 /\ TimeDifference(now, lastPass.at) > 60000)
            => \A inst \in Instances(scheduledEvents) \cup Instances(scheduledEvents') :
                  (/\ DateLT(lastPass.at, InstantOf(inst))
                   /\ DateLE(PlusMs(InstantOf(inst), 60000), now))
                  => CountIn(delivered', inst[1], inst[1].alerts[inst[2]]) = 0]_vars
    /\ [][PassStep
            => \A inst \in Instances(scheduledEvents') :
                  DateLE(PlusMs(InstantOf(inst), 60000), now)
                  => CountIn(delivered', inst[1], inst[1].alerts[inst[2]])
                       = CountIn(delivered, inst[1], inst[1].alerts[inst[2]])]_vars

\* C22 witness: the list arrived at 23:57:59.999 and the tick ran 60001 ms
\* later; the alert whose instant is 23:58:00.000 has not been delivered.
C22_Witness ==
    /\ received = 1
    /\ passCount = 2
    /\ lastPass.at = PlusMs(StartOfClock, 60001)
    /\ \E inst \in Instances(scheduledEvents) :
          /\ ~inst[1].isCompleted
          /\ InstantOf(inst) = PlusMs(StartOfClock, 1)
          /\ CountIn(delivered, inst[1], inst[1].alerts[inst[2]]) = 0

----------------------------------------------------------------------------
(* Properties of the notifications of one pass                             *)

\* The showNotification calls of the last pass under a given tag.
ShownUnder(tag) == { n \in DOMAIN lastPass.shown : lastPass.shown[n].tag = tag }

\* The alert instances of the list of the last pass that were due at it.
DueInstances ==
    { inst \in Instances(lastPass.list) :
        /\ Evaluated(inst[1])
        /\ IsDue(TimeDifference(lastPass.at, InstantOf(inst))) }

\* C23: in a pass every due alert of an evaluated event yields exactly one
\* notification; its tag is the event id followed by the alert id and nothing
\* else (no date, also for a recurring event), its snoozeCount is 0 and its
\* eventId the event's id; nothing else is shown; and two due alerts of one
\* event are shown under different tags.
C23_OnePerDueAlert ==
    /\ \A inst \in DueInstances :
          LET event == inst[1]
              alert == event.alerts[inst[2]]
              under == ShownUnder(event.id \o <<alert.id>>)
          IN  /\ Cardinality(under) = 1
              /\ \A n \in under :
                    /\ lastPass.shown[n].data.snoozeCount = 0
                    /\ lastPass.shown[n].data.eventId = event.id
                    /\ Len(lastPass.shown[n].tag) = Len(event.id) + 1
    /\ Len(lastPass.shown) = Cardinality(DueInstances)
    /\ \A m, n \in DOMAIN lastPass.shown :
          m # n => lastPass.shown[m].tag # lastPass.shown[n].tag

\* C23 witness: a pass showed two notifications for two alerts of one event
\* that were due together.
C23_Witness ==
    /\ Len(lastPass.shown) = 2
    /\ lastPass.shown[1].data.eventId = lastPass.shown[2].data.eventId
    /\ lastPass.shown[1].tag # lastPass.shown[2].tag
    /\ Cardinality(DueInstances) = 2

\* The due instance of the last pass that a showNotification call stems from.
InstanceOf(notification) ==
    CHOOSE inst \in DueInstances :
        inst[1].id \o <<inst[1].alerts[inst[2]].id>> = notification.tag

\* C24: the body of the notification of a due alert with value 0 has the
\* 'starting now' form, whatever the unit, and names no value and no unit;
\* the body of one with value > 0 has the 'in <value> <unit>' form with the
\* alert's value and the label of its unit.
C24_BodyForm ==
    \A n \in DOMAIN lastPass.shown :
        LET body == lastPass.shown[n].body
            inst == InstanceOf(lastPass.shown[n])
            alert == inst[1].alerts[inst[2]]
        IN  /\ alert.value = 0 =>
                  /\ body.form = "startingNow"
                  /\ DOMAIN body = {"form", "startTime"}
            /\ alert.value > 0 =>
                  /\ body.form = "inValueUnit"
                  /\ body.value = alert.value
                  /\ body.unitLabel = UnitLabel(alert.unit)
            /\ body.startTime = inst[1].startTime

\* C24 witness: one pass showed a notification for an alert of 0 years and
\* one for an alert of 4 years.
C24_Witness ==
    /\ Len(lastPass.shown) = 2
    /\ \E m, n \in DOMAIN lastPass.shown :
          /\ lastPass.shown[m].body.form = "startingNow"
          /\ InstanceOf(lastPass.shown[m])[1].alerts[1].unit = "years"
          /\ lastPass.shown[n].body.form = "inValueUnit"
          /\ lastPass.shown[n].body.unitLabel = "ano(s)"
          /\ lastPass.shown[n].body.value = 4

\* The event is anchored on the given date and repeats by the given rule.
IsSeries(event, date, rule) == event.date = date /\ event.repeat = rule

\* The dates of the occurrences of an event in the result, in order.
DatesOf(event) ==
    LET got == OccurrencesOf(event) IN [i \in DOMAIN got |-> got[i].date]

\* C25: an event anchored on 2024-01-31 with a monthly repeat of interval 1,
\* expanded over 2024-01-01..2024-04-30, has occurrences exactly on
\* 2024-01-31, 2024-03-02 and 2024-04-02: none in February, and the shifted
\* day of month stays with the later occurrences.
C25_MonthlyRollover ==
    (/\ pcE = "done"
     /\ viewStart = At(2024, 1, 1, 0)
     /\ viewEnd.day = DaysFromCivil(2024, 4, 30)) =>
        \A k \in DOMAIN baseEvents :
            IsSeries(baseEvents[k], Ymd(2024, 1, 31), Monthly(1)) =>
                DatesOf(baseEvents[k]) =
                    <<Ymd(2024, 1, 31), Ymd(2024, 3, 2), Ymd(2024, 4, 2)>>

\* C25 witness: the expansion of that event over that window has returned,
\* with an occurrence dated 2024-04-02.
C25_Witness ==
    /\ pcE = "done"
    /\ viewStart = At(2024, 1, 1, 0)
    /\ viewEnd.day = DaysFromCivil(2024, 4, 30)
    /\ \E k \in DOMAIN baseEvents :
          /\ IsSeries(baseEvents[k], Ymd(2024, 1, 31), Monthly(1))
          /\ \E i \in DOMAIN allOccurrences :
                /\ allOccurrences[i].id = baseEvents[k].id \o <<2024, 4, 2>>
                /\ allOccurrences[i].date = Ymd(2024, 4, 2)

\* Day n is a day of the event: its anchor day, or a day of its series.
LandsOn(event, n) ==
    IF HasRepeat(event)
    THEN \E i \in DOMAIN SeriesFrom(DayOf(event.date), event.repeat, n) :
            SeriesFrom(DayOf(event.date), event.repeat, n)[i] = n
    ELSE DayOf(event.date) = n

\* The entries of the result that stem from the event.
EntriesOf(event) ==
    LET FromEvent(o) == o.id[1] = event.id[1] IN SelectSeq(allOccurrences, FromEvent)

\* The result is exactly the occurrences dated day n: one entry for each
\* event that lands on n, the event itself when it does not repeat, and
\* nothing else.
ExactlyTheDay(n) ==
    /\ \A i \in DOMAIN allOccurrences : DayOf(allOccurrences[i].date) = n
    /\ \A k \in DOMAIN baseEvents :
          LET event == baseEvents[k]
              got == EntriesOf(event)
          IN  IF LandsOn(event, n)
              THEN /\ Len(got) = 1
                   /\ HasRepeat(event) =>
                          got[1].id = event.id \o <<CivilFromDays(n).y,
                                                    CivilFromDays(n).m,
                                                    CivilFromDays(n).d>>
                   /\ ~HasRepeat(event) => got[1] = event
              ELSE got = <<>>

ClonedFrom(o, event) ==
    /\ DOMAIN o = DOMAIN event
    /\ \A f \in DOMAIN event \ {"id", "date"} : o[f] = event[f]
    /\ o.id = event.id \o <<o.date.y, o.date.m, o.date.d>>

\* C27: every occurrence emitted for a recurring event equals the event in
\* every field except id and date, and its id is the event's id followed by
\* its date; so all occurrences of an event carry the event's isCompleted,
\* alerts and startTime.
C27_ClonedFromEvent ==
    \A k \in DOMAIN baseEvents :
        HasRepeat(baseEvents[k]) =>
            LET got == OccurrencesOf(baseEvents[k])
            IN  \A i \in DOMAIN got :
                    /\ ClonedFrom(got[i], baseEvents[k])
                    /\ got[i].isCompleted = baseEvents[k].isCompleted
                    /\ got[i].alerts = baseEvents[k].alerts
                    /\ got[i].startTime = baseEvents[k].startTime

\* C27 witness: the result holds two occurrences of a completed recurring
\* event that has an alert.
C27_Witness ==
    /\ pcE = "done"
    /\ \E k \in DOMAIN baseEvents :
          /\ HasRepeat(baseEvents[k])
          /\ baseEvents[k].isCompleted
          /\ baseEvents[k].alerts # <<>>
          /\ Len(OccurrencesOf(baseEvents[k])) >= 2
          /\ OccurrencesOf(baseEvents[k])[1].date # OccurrencesOf(baseEvents[k])[2].date

\* The step in which the listener received a message of another type.
OtherStep == received' = received + 1 /\ lastMessage'.type # "SYNC_EVENTS"

\* C28: the stored list changes only in a step that handles a SYNC_EVENTS
\* message; a timer tick, a notificationclick event, the expiry of a snooze
\* timer and a message of another type leave it unchanged, and the click,
\* the snooze expiry and the other message leave the pending polling timer
\* unchanged as well.
C28_OnlySyncChangesList ==
    /\ [][scheduledEvents' # scheduledEvents => SyncStep]_vars
    /\ [][TickStep => scheduledEvents' = scheduledEvents]_vars
    /\ [][(ClickStep \/ SnoozeFireStep \/ OtherStep)
            => /\ scheduledEvents' = scheduledEvents
               /\ notificationCheckTimeout' = notificationCheckTimeout
               /\ timers' = timers]_vars

\* C28 witness: with a list stored and a polling timeout pending, the three
\* kinds of click were handled, a snooze timeout ran and the last message
\* received was of another type.
C28_Witness ==
    /\ scheduledEvents # <<>>
    /\ timers # {}
    /\ clicks = 3
    /\ lastClick.action = ""
    /\ lastSnooze # NoSnooze
    /\ lastMessage.type = "OTHER"
    /\ clientInbox # <<>>

\* The step in which deleteCalendar(id) was called: the one operation that
\* removes a calendar without restoring a snapshot.
DeleteCalendarStep(id) ==
    /\ \E i \in DOMAIN calendars : calendars[i].id = id
    /\ \A i \in DOMAIN calendars' : calendars'[i].id # id
    /\ undoStack' = Append(undoStack, [calendars |-> calendars, events |-> events])

\* The ids of the calendars of a list.
CalendarIds(list) == { list[i].id : i \in DOMAIN list }

\* C30: after deleteCalendar(id) no calendar has that id and no event has
\* that calendarId, and the other calendars and the events of the other
\* calendars are what they were, in the same order.
C30_DeleteCalendarCascade ==
    [][\A id \in CalendarIds(calendars) :
          DeleteCalendarStep(id) =>
              /\ \A i \in DOMAIN calendars' : calendars'[i].id # id
              /\ \A i \in DOMAIN events' : events'[i].calendarId # id
              /\ calendars' = WithoutCalendar(calendars, id)
              /\ LET Other(event) == event.calendarId # id
                 IN  events' = SelectSeq(events, Other)]_vars

\* C30 witness: deleteCalendar has just removed the second of two calendars
\* together with its event, and the default calendar and its event remain.
C30_Witness ==
    /\ Len(undoStack) = 1
    /\ redoStack = <<>>
    /\ Len(undoStack[1].calendars) = 2
    /\ Len(undoStack[1].events) = 2
    /\ calendars = <<undoStack[1].calendars[1]>>
    /\ events = <<undoStack[1].events[1]>>
    /\ undoStack[1].events[2].calendarId = undoStack[1].calendars[2].id

\* The step in which the sync effect of the open window runs.
EffectStep == syncPending /\ ~syncPending' /\ clientOpen'

\* An operation on the data has run since the window opened.
DataChanged == undoStack # <<>> \/ redoStack # <<>>

\* C29: every change of the application's event list makes the sync effect
\* due, and the effect, run after a change, sends a SYNC_EVENTS message that
\* carries the current list, after which the worker's stored list is that
\* list.
C29_SyncAfterChange ==
    /\ [][events' # events => syncPending']_vars
    /\ [][(EffectStep /\ DataChanged)
            => /\ SyncStep
               /\ lastMessage'.events = events
               /\ scheduledEvents' = events]_vars

----------------------------------------------------------------------------
(* Recurring events in the evaluation pass                                 *)

\* The days of the occurrences of a recurring event after its anchor, up to
\* five weeks past the last pass.
LaterOccurrenceDays(event) ==
    LET days == SeriesFrom(DayOf(event.date), event.repeat, lastPass.at.day + 35)
    IN  { days[i] : i \in DOMAIN days \ {1} }

\* The start time of an event within its day, in milliseconds.
StartMs(event) == (event.startTime.h * 60 + event.startTime.mi) * 60000

\* The notification instant of an alert measured from the occurrence of the
\* event on day n.
OccurrenceInstant(event, n, alert) ==
    NotificationTime([day |-> n, ms |-> StartMs(event)], alert)

\* An alert of a recurring event would be due at the last pass if it were
\* measured from one of the later occurrences.
LaterOccurrenceDue(inst) ==
    \E n \in LaterOccurrenceDays(inst[1]) :
        IsDue(TimeDifference(lastPass.at,
                             OccurrenceInstant(inst[1], n, inst[1].alerts[inst[2]])))

\* C31: a pass shows a notification for an alert of a recurring event
\* exactly when the alert is due measured from the stored date and start
\* time of the event, its anchor; an alert that would be due measured from
\* a later occurrence of the series, and is not due from the anchor, is not
\* shown.
C31_AnchorOnly ==
    \A inst \in Instances(lastPass.list) :
        (HasRepeat(inst[1]) /\ Evaluated(inst[1])) =>
            LET tag == NotificationId(inst[1], inst[1].alerts[inst[2]])
                dueFromAnchor ==
                    IsDue(TimeDifference(lastPass.at,
                                         OccurrenceInstant(inst[1], DayOf(inst[1].date),
                                                           inst[1].alerts[inst[2]])))
            IN  /\ (ShownUnder(tag) # {}) <=> dueFromAnchor
                /\ (LaterOccurrenceDue(inst) /\ ~dueFromAnchor) => ShownUnder(tag) = {}

\* C31 witness: a pass at 2024-02-29 23:58, when the second occurrence of
\* one weekly event starts and the alert of a week before its third
\* occurrence is due: neither is shown, and the one notification of the
\* pass is for the anchor of another recurring event.
C31_Witness ==
    /\ lastPass.at = At(2024, 2, 29, (23 * 60 + 58) * 60000)
    /\ Len(lastPass.shown) = 1
    /\ \E inst \in Instances(lastPass.list) :
          /\ HasRepeat(inst[1])
          /\ ShownUnder(NotificationId(inst[1], inst[1].alerts[inst[2]])) # {}
    /\ \E a, b \in Instances(lastPass.list) :
          /\ a # b
          /\ a[1] = b[1]
          /\ HasRepeat(a[1])
          /\ LaterOccurrenceDue(a)
          /\ LaterOccurrenceDue(b)
          /\ ShownUnder(NotificationId(a[1], a[1].alerts[a[2]])) = {}
          /\ ShownUnder(NotificationId(b[1], b[1].alerts[b[2]])) = {}

----------------------------------------------------------------------------
(* The scheduler before its first list                                     *)

\* No polling timeout is pending: the scheduler is idle.
Idle == timers = {}

\* C32: until the first SYNC_EVENTS message is handled no pass has run, no
\* notification has been shown, no polling timeout is pending and the stored
\* list is the empty list of the script; the first pass is run by a
\* SYNC_EVENTS message, and a step that takes the scheduler from idle to
\* armed is the handling of a SYNC_EVENTS message.
C32_IdleUntilSync ==
    /\ [](passCount = 0 => /\ Idle
                           /\ notificationCheckTimeout = 0
                           /\ timerSeq = 0
                           /\ scheduledEvents = <<>>
                           /\ displayed = {}
                           /\ DOMAIN delivered = {})
    /\ [][(passCount = 0 /\ PassStep) => SyncStep]_vars
    /\ [][(Idle /\ ~Idle') => SyncStep]_vars

\* C32 witness: a message of another type was handled and the clock moved
\* by two minutes, and the scheduler is still idle.
C32_Witness ==
    /\ received = 1
    /\ lastMessage.type = "OTHER"
    /\ advances = 2
    /\ now = PlusMs(StartOfClock, 120000)
    /\ passCount = 0
    /\ Idle

----------------------------------------------------------------------------
(* Series and windows                                                      *)

\* The days of the series of a recurring event, up to the end of the
\* window, whose midnight is not before windowStart.
SeriesFromWindowStart(event) ==
    LET AtOrAfterStart(n) == NotAfter(viewStart, Midnight(n))
    IN  SelectSeq(SeriesFrom(DayOf(event.date), event.repeat, viewEnd.day), AtOrAfterStart)

\* C33: no occurrence of a recurring event is dated before the anchor date
\* of the event; and when the anchor lies before windowStart, the first
\* occurrence returned is the earliest date of the series that is not
\* before windowStart, provided that date is within the window.
C33_FromAnchorOn ==
    /\ \A k \in DOMAIN baseEvents :
          HasRepeat(baseEvents[k]) =>
              \A i \in DOMAIN OccurrencesOf(baseEvents[k]) :
                  DayOf(OccurrencesOf(baseEvents[k])[i].date) >= DayOf(baseEvents[k].date)
    /\ pcE = "done" =>
          \A k \in DOMAIN baseEvents :
              LET event == baseEvents[k]
                  got == OccurrencesOf(event)
                  want == SeriesFromWindowStart(event)
              IN  (HasRepeat(event) /\ ~NotAfter(viewStart, Midnight(DayOf(event.date)))) =>
                      IF want # <<>> /\ DayInWindow(want[1])
                      THEN /\ got # <<>>
                           /\ DayOf(got[1].date) = want[1]
                           /\ \A i \in DOMAIN got : DayInWindow(DayOf(got[i].date))
                      ELSE got = <<>>

\* C33 witness: a series anchored on 2024-01-29 with a step of two days,
\* expanded over a window that starts on 2024-01-30 at 00:00:00.001, has
\* returned occurrences, the first dated 2024-01-31.
C33_Witness ==
    /\ pcE = "done"
    /\ viewStart = At(2024, 1, 30, 1)
    /\ \E k \in DOMAIN baseEvents :
          /\ baseEvents[k].repeat = Daily(2)
          /\ baseEvents[k].date = Ymd(2024, 1, 29)
          /\ Len(OccurrencesOf(baseEvents[k])) >= 2
          /\ OccurrencesOf(baseEvents[k])[1].date = Ymd(2024, 1, 31)

\* The number of days from one date string to another.
DaysBetween(a, b) == DayOf(b) - DayOf(a)

\* C34: two consecutive occurrences of a daily event with interval k are k
\* days apart and those of a weekly event with interval k are 7 * k days
\* apart; every occurrence of a weekly event is a whole number of weeks
\* after the anchor, hence on the weekday of the anchor.
C34_EvenSpacing ==
    \A n \in DOMAIN baseEvents :
        LET event == baseEvents[n]
            got == OccurrencesOf(event)
            k == event.repeat.interval
        IN  /\ event.repeat.frequency = "daily" =>
                  \A i \in DOMAIN got :
                      i > 1 => DaysBetween(got[i - 1].date, got[i].date) = k
            /\ event.repeat.frequency = "weekly" =>
                  /\ \A i \in DOMAIN got :
                        i > 1 => DaysBetween(got[i - 1].date, got[i].date) = 7 * k
                  /\ \A i \in DOMAIN got :
                        DaysBetween(event.date, got[i].date) % 7 = 0

\* C34 witness: the result holds three occurrences of an event repeating
\* every three days and three of an event repeating every two weeks.
C34_Witness ==
    /\ pcE = "done"
    /\ \E m, n \in DOMAIN baseEvents :
          /\ baseEvents[m].repeat = Daily(3)
          /\ Len(OccurrencesOf(baseEvents[m])) >= 3
          /\ baseEvents[n].repeat = Weekly(2)
          /\ Len(OccurrencesOf(baseEvents[n])) >= 3

\* The first and the last instant of the five years 2024..2028.
FiveYears == viewStart = At(2024, 1, 1, 0) /\ viewEnd = At(2028, 12, 31, LastMs)

\* C35: an event anchored on 2024-02-29 with a yearly repeat of interval 1,
\* expanded over 2024-01-01..2028-12-31, has occurrences exactly on
\* 2024-02-29, 2025-03-01, 2026-03-01, 2027-03-01 and 2028-03-01: the date
\* rolls to March 1 in a year without February 29 and stays there in the
\* leap year 2028.
C35_LeapDayYearly ==
    (pcE = "done" /\ FiveYears) =>
        \A k \in DOMAIN baseEvents :
            IsSeries(baseEvents[k], Ymd(2024, 2, 29), Yearly(1)) =>
                DatesOf(baseEvents[k]) =
                    <<Ymd(2024, 2, 29), Ymd(2025, 3, 1), Ymd(2026, 3, 1),
                      Ymd(2027, 3, 1), Ymd(2028, 3, 1)>>

\* C35 witness: the expansion of that event over the five years has
\* returned, with an occurrence dated 2028-03-01.
C35_Witness ==
    /\ pcE = "done"
    /\ FiveYears
    /\ \E k \in DOMAIN baseEvents :
          /\ IsSeries(baseEvents[k], Ymd(2024, 2, 29), Yearly(1))
          /\ \E i \in DOMAIN allOccurrences :
                /\ allOccurrences[i].id = baseEvents[k].id \o <<2028, 3, 1>>
                /\ allOccurrences[i].date = Ymd(2028, 3, 1)

\* Alert b measures in the smaller unit what alert a measures in the larger
\* one: 7 * w days for w weeks, 60 * h minutes for h hours.
SameLead(a, b) ==
    \/ a.unit = "weeks" /\ b.unit = "days" /\ b.value = 7 * a.value
    \/ a.unit = "hours" /\ b.unit = "minutes" /\ b.value = 60 * a.value

\* The largest number of weeks and of hours the leads below are taken from.
LeadWeeks == 0..5
LeadHours == 0..25

\* C36: for one event, an alert of w weeks and an alert of 7 * w days, and
\* an alert of h hours and one of 60 * h minutes, have the same notification
\* instant; two such alerts of a stored event have been delivered by the same
\* number of passes, and the last pass showed both or neither.
C36_EqualLeads ==
    /\ \A i \in DOMAIN scheduledEvents :
          LET event == scheduledEvents[i]
              eventTime == ParseEventTime(event)
          IN  (Shape(event) = "ok" /\ ~IsNaN(eventTime)) =>
                /\ \A w \in LeadWeeks :
                      NotificationTime(eventTime, Alert("x", w, "weeks")) =
                      NotificationTime(eventTime, Alert("y", 7 * w, "days"))
                /\ \A h \in LeadHours :
                      NotificationTime(eventTime, Alert("x", h, "hours")) =
                      NotificationTime(eventTime, Alert("y", 60 * h, "minutes"))
    /\ \A inst \in Instances(lastPass.list) :
          \A j \in DOMAIN inst[1].alerts :
              LET event == inst[1]
                  a == event.alerts[inst[2]]
                  b == event.alerts[j]
              IN  SameLead(a, b) =>
                    /\ DeliveredCount(event, a) = DeliveredCount(event, b)
                    /\ (ShownUnder(event.id \o <<a.id>>) = {}) <=>
                            (ShownUnder(event.id \o <<b.id>>) = {})

\* C36 witness: the last pass ran on a list with an event whose two alerts
\* have leads of 1 week and 7 days, and delivered both.
C36_Witness ==
    /\ passCount > 1
    /\ \E i \in DOMAIN lastPass.list : lastPass.list[i] = evB
    /\ DeliveredCount(evB, evB.alerts[1]) = 1
    /\ DeliveredCount(evB, evB.alerts[2]) = 1
    /\ ShownUnder(evB.id \o <<evB.alerts[1].id>>) # {}
    /\ ShownUnder(evB.id \o <<evB.alerts[2].id>>) # {}

----------------------------------------------------------------------------
(* Ids, history and stale messages in the application                      *)

\* The message at the head of the window's queue asks to complete an event
\* that the application's list does not hold.
StaleMark ==
    /\ clientInbox # <<>>
    /\ Head(clientInbox).type = "MARK_EVENT_AS_COMPLETED"
    /\ \A i \in DOMAIN events : events[i].id # Head(clientInbox).eventId

\* C40: handling a MARK_EVENT_AS_COMPLETED message whose eventId matches no
\* event of the list leaves the events, the calendars and both history
\* stacks as they were; the handler runs to its end, the message being taken
\* off the queue and the window staying open.
C40_StaleMarkIgnored ==
    [][(StaleMark /\ HandleStep) =>
          /\ UNCHANGED <<events, calendars, undoStack, redoStack>>
          /\ clientOpen']_vars

\* C40 witness: an event was deleted while its notification was on display,
\* the notification was marked as done, and the message has been handled.
C40_Witness ==
    /\ lastClick.action = "mark_as_read"
    /\ clientInbox = <<>>
    /\ \A i \in DOMAIN events : events[i].id # lastClick.notification.data.eventId
    /\ Len(undoStack) = 1
    /\ redoStack = <<>>
    /\ Len(events) = Len(undoStack[1].events) - 1

\* C37: the events of the application's list have pairwise distinct ids.
C37_DistinctEventIds ==
    \A i, j \in DOMAIN events : i # j => events[i].id # events[j].id

\* C38: the undo stack holds at most 20 saved states.
C38_AtMostTwenty == Len(undoStack) <= 20

\* C39: undo followed at once by redo gives back the calendars, the events,
\* the undo stack and the redo stack of before the undo; undo with an empty
\* undo stack and redo with an empty redo stack change nothing.
C39_UndoThenRedo ==
    /\ [](/\ undoStack # <<>> =>
               /\ Undone(AppState) # AppState
               /\ Redone(Undone(AppState)) = AppState
          /\ undoStack = <<>> => Undone(AppState) = AppState
          /\ redoStack = <<>> => Redone(AppState) = AppState)
    /\ [][/\ (undoStack = <<>> /\ redoStack = <<>>) =>
                (Len(redoStack') = 0 /\ Len(undoStack') <= 1)
          /\ undoStack = <<>> => Len(redoStack') <= Len(redoStack)]_vars

\* C39 witness: undo has run on a history of several states and redo has
\* run after it, and both stacks hold states to go on with.
C39_Witness ==
    /\ Len(undoStack) >= 2
    /\ Len(redoStack) >= 2
    /\ undoStack[Len(undoStack)].events # events
    /\ Len(redoStack[Len(redoStack)].events) < Len(undoStack[1].events)

====
